---- MODULE Spec2Model ----
(***************************************************************************)
(* Model of the blockchain node core (crates/blockchain-core): Blockchain, *)
(* Block, MerkleTree, Transaction and WorldState, with the contract        *)
(* deployment of crates/blockchain-vm that writes into the same state.     *)
(*                                                                         *)
(* SHA-256 is modelled as a collision-free function: a digest is a record  *)
(* of its preimage (pre) and of the value of its leading HashDigits digits *)
(* (d), which is what the proof-of-work prefix test reads.  Ed25519 is     *)
(* modelled as unforgeable: a signature records the signing key and the    *)
(* signed message.  u64 arithmetic wraps at 2^U64Bits.                     *)
(***************************************************************************)
EXTENDS Integers, Sequences, FiniteSets, TLC

\* ------------------------------------------------------------- bounds
HashDigits == 2        \* leading digits of a digest the model keeps
DigitBase == 2         \* base of one digit of a digest
U64Bits == 2           \* width of the balance / nonce integers of the model
MaxChainLen == 3       \* the node stops mining at this chain length
MaxAccepted == 2       \* add_transaction accepts at most this many transactions in a run
MaxContracts == 1      \* at most this many deployed contracts
MaxReward == 2         \* the largest configured mining_reward
MaxMessages == 2       \* events, commands and gossip messages under way at one time
I64Bits == 6           \* width of the i64 values of the VM
MAX_STACK_SIZE == 3    \* the stack limit of the VM, 1024 in vm.rs
MAX_STEPS == 6         \* the step limit of the VM, 100_000 in vm.rs
MaxInstructions == 4   \* the longest bytecode enumerated, in instructions
ChannelCapacity == 1   \* the capacity of each channel, 256 in main.rs
MaxPeers == 2          \* PeerConnected events counted in a run
OPERAND_BYTES == 8     \* the bytes a PUSH reads after its opcode

RECURSIVE Pow(_, _)
Pow(b, e) == IF e = 0 THEN 1 ELSE b * Pow(b, e - 1)

HashSpace == Pow(DigitBase, HashDigits)
U64Modulus == Pow(2, U64Bits)
\* Readings of the node's wall clock (the blocks of peers carry the reading 1).
Times == {0}
Miners == {"alice"}

\* The (difficulty, mining_reward) pairs a node is constructed with.
Configs == {[difficulty |-> 1, mining_reward |-> MaxReward],
            [difficulty |-> HashDigits, mining_reward |-> 1]}

\* ------------------------------------------------------------- hashing
\* Sha256::new().update(..).finalize() followed by hex::encode.
Sha256(pre, seed) == [d |-> seed % HashSpace, pre |-> pre]

\* "0".repeat(64): a string of zeros, not the digest of anything.
ZeroString == [d |-> 0, pre |-> <<"zeros">>]

\* The empty string handed to hash_pair by MerkleTree::root(&[]).
EmptyString == [d |-> 0, pre |-> <<>>]

RECURSIVE LeadingZerosFrom(_, _)
LeadingZerosFrom(d, k) ==
    IF k = 0 THEN 0
    ELSE IF d < Pow(DigitBase, k - 1) THEN 1 + LeadingZerosFrom(d, k - 1)
    ELSE 0

\* Number of leading '0' characters among the first HashDigits of a digest.
LeadingZeros(h) == LeadingZerosFrom(h.d, HashDigits)

\* hash.starts_with(&"0".repeat(n))
starts_with_zeros(h, n) == LeadingZeros(h) >= n

RECURSIVE DecimalShift(_)
DecimalShift(n) == IF n < 10 THEN 10 ELSE 10 * DecimalShift(n \div 10)

\* format!("{}{}", a, b) of two unsigned integers.
DecimalConcat(a, b) == a * DecimalShift(b) + b

\* ------------------------------------------------------------- transactions
None == <<>>
Some(x) == <<x>>

Tx(id, sender, recipient, amount, data, tx_type, timestamp) ==
    [id |-> id, sender |-> sender, recipient |-> recipient, amount |-> amount,
     data |-> data, tx_type |-> tx_type, timestamp |-> timestamp,
     signature |-> None, public_key |-> None]

new_transfer(id, sender, recipient, amount, timestamp) ==
    Tx(id, sender, recipient, amount, <<>>, "Transfer", timestamp)

new_contract_call(id, sender, contract_address, call_data, timestamp) ==
    Tx(id, sender, contract_address, 0, call_data, "ContractCall", timestamp)

tx_hash(tx) ==
    Sha256(<<tx.id, tx.sender, tx.recipient, tx.amount, tx.timestamp, tx.data, tx.tx_type>>,
           tx.id + tx.amount + tx.timestamp + Len(tx.data))

\* The Display of a DateTime<Utc>: the timestamps of the model are seconds of
\* one minute.
DateTimeDisplay(timestamp) == "2024-01-01 00:00:0" \o ToString(timestamp) \o " UTC"

\* format!("{}{}{}{}{}", id, sender, recipient, amount, timestamp): the five
\* texts one after the other with nothing between them.
signable_data(tx) ==
    ToString(tx.id) \o tx.sender \o tx.recipient \o ToString(tx.amount)
        \o DateTimeDisplay(tx.timestamp)

signable_bytes(tx) == Sha256(signable_data(tx), Len(signable_data(tx)))

sign(tx, key) ==
    [tx EXCEPT !.signature = Some([len |-> 64, signer |-> key, msg |-> signable_bytes(tx)]),
               !.public_key = Some([len |-> 32, key |-> key])]

\* Transaction::verify: "Ok" or the error kind.
verify(tx) ==
    IF tx.sender = "system" THEN "Ok"
    ELSE IF tx.signature = None THEN "InvalidSignature"
    ELSE IF tx.public_key = None THEN "InvalidSignature"
    ELSE IF tx.signature[1].len # 64 THEN "InvalidSignature"
    ELSE IF tx.public_key[1].len # 32 THEN "InvalidSignature"
    ELSE IF ~(tx.signature[1].signer = tx.public_key[1].key
              /\ tx.signature[1].msg = signable_bytes(tx)) THEN "InvalidSignature"
    ELSE "Ok"

\* Wallet::derive_address: the address of the wallet that holds a key. The names
\* of the model stand for the "0x" digests of the public keys: "alice" is the
\* address of the wallet with key "ka", "bob" of the one with key "kb".
derive_address(key) == IF key = "ka" THEN "alice" ELSE IF key = "kb" THEN "bob" ELSE "0x" \o key

\* ------------------------------------------------------------- Merkle tree
hash_pair(left, right) == Sha256(<<left, right>>, 2 * left.d + right.d + 1)

RECURSIVE MerkleLevel(_)
MerkleLevel(hashes) ==
    IF Len(hashes) = 0 THEN <<>>
    ELSE <<hash_pair(hashes[1], hashes[2])>> \o MerkleLevel(SubSeq(hashes, 3, Len(hashes)))

RECURSIVE MerkleReduce(_)
MerkleReduce(hashes) ==
    IF Len(hashes) <= 1 THEN hashes[1]
    ELSE LET padded == IF Len(hashes) % 2 # 0
                       THEN Append(hashes, hashes[Len(hashes)])
                       ELSE hashes
         IN MerkleReduce(MerkleLevel(padded))

MerkleRoot(transactions) ==
    IF Len(transactions) = 0 THEN hash_pair(EmptyString, EmptyString)
    ELSE MerkleReduce([i \in 1..Len(transactions) |-> tx_hash(transactions[i])])

\* ------------------------------------------------------------- blocks
calculate_hash(header) ==
    Sha256(<<header.index, header.timestamp, header.previous_hash, header.merkle_root,
             DecimalConcat(header.nonce, header.difficulty)>>,
           header.index + header.timestamp + header.previous_hash.d
             + header.merkle_root.d + header.nonce + header.difficulty)

BlockNew(index, previous_hash, transactions, block_difficulty, now) ==
    LET header == [index |-> index, timestamp |-> now, previous_hash |-> previous_hash,
                   merkle_root |-> MerkleRoot(transactions), nonce |-> 0,
                   difficulty |-> block_difficulty]
    IN [header |-> header, hash |-> calculate_hash(header), transactions |-> transactions]

genesis(now) ==
    LET header == [index |-> 0, timestamp |-> now, previous_hash |-> ZeroString,
                   merkle_root |-> MerkleRoot(<<>>), nonce |-> 0, difficulty |-> 1]
    IN [header |-> header, hash |-> calculate_hash(header), transactions |-> <<>>]

\* mine without the nonce search: the hash of the header as built.
mine_without_search(block) == [block EXCEPT !.hash = calculate_hash(block.header)]

\* mine moving to the next nonce before it hashes the header.
RECURSIVE mine_advancing_first(_)
mine_advancing_first(block) ==
    LET next == [block EXCEPT !.header.nonce = @ + 1]
        h == calculate_hash(next.header)
    IN IF starts_with_zeros(h, next.header.difficulty)
       THEN [next EXCEPT !.hash = h]
       ELSE mine_advancing_first(next)

RECURSIVE mine(_)
mine(block) ==
    LET h == calculate_hash(block.header)
    IN IF starts_with_zeros(h, block.header.difficulty)
       THEN [block EXCEPT !.hash = h]
       ELSE mine([block EXCEPT !.header.nonce = @ + 1])

\* is_valid testing the zero prefix of the stored hash only.
is_valid_prefix_only(block) == starts_with_zeros(block.hash, block.header.difficulty)

is_valid(block) ==
    /\ calculate_hash(block.header) = block.hash
    /\ starts_with_zeros(block.hash, block.header.difficulty)

\* ------------------------------------------------------------- world state
EmptyMap == [k \in {} |-> 0]

Put(m, k, v) == [x \in (DOMAIN m) \cup {k} |-> IF x = k THEN v ELSE m[x]]

AccountState_new(balance) == [balance |-> balance, nonce |-> 0]

WorldState_new == [accounts |-> EmptyMap, contracts |-> EmptyMap]

get_balance(ws, address) ==
    IF address \in DOMAIN ws.accounts THEN ws.accounts[address].balance ELSE 0

\* The map after entry(address).or_insert_with(|| AccountState::new(0)).
get_or_create_account(ws, address) ==
    IF address \in DOMAIN ws.accounts THEN ws
    ELSE [ws EXCEPT !.accounts = Put(@, address, AccountState_new(0))]

credit(ws, address, amount) ==
    LET w == get_or_create_account(ws, address)
    IN [w EXCEPT !.accounts[address].balance = (@ + amount) % U64Modulus]

\* WorldState::debit: the state after the call and the value returned.
debit(ws, address, amount) ==
    LET w == get_or_create_account(ws, address)
    IN IF w.accounts[address].balance >= amount
       THEN [ws |-> [w EXCEPT !.accounts[address].balance = @ - amount,
                              !.accounts[address].nonce = (@ + 1) % U64Modulus],
             ok |-> TRUE]
       ELSE [ws |-> w, ok |-> FALSE]

\* transfer without the balance test before the debit.
transfer_unchecked(ws, from, to, amount) ==
    [ws |-> credit(debit(ws, from, amount).ws, to, amount), ok |-> TRUE]

\* WorldState::transfer: the state after the call and the value returned.
transfer(ws, from, to, amount) ==
    IF get_balance(ws, from) < amount
    THEN [ws |-> ws, ok |-> FALSE]
    ELSE [ws |-> credit(debit(ws, from, amount).ws, to, amount), ok |-> TRUE]

deploy_contract(ws, address, bytecode, owner) ==
    [ws EXCEPT !.contracts =
        Put(@, address, [bytecode |-> bytecode, storage |-> EmptyMap, owner |-> owner])]

\* ------------------------------------------------------------- chain
\* The loop of mine_pending, leaving at the first transfer that is refused.
RECURSIVE ApplyTransitions_abort_on_skip(_, _, _)
ApplyTransitions_abort_on_skip(ws, transactions, i) ==
    IF i > Len(transactions) THEN ws
    ELSE LET tx == transactions[i]
         IN IF tx.tx_type # "Transfer" THEN ApplyTransitions_abort_on_skip(ws, transactions, i + 1)
            ELSE IF tx.sender = "system"
            THEN ApplyTransitions_abort_on_skip(credit(ws, tx.recipient, tx.amount),
                                                transactions, i + 1)
            ELSE LET r == transfer(ws, tx.sender, tx.recipient, tx.amount)
                 IN IF r.ok THEN ApplyTransitions_abort_on_skip(r.ws, transactions, i + 1)
                    ELSE ws

\* The state-transition loop of mine_pending over transactions[i..].
RECURSIVE ApplyTransitions(_, _, _)
ApplyTransitions(ws, transactions, i) ==
    IF i > Len(transactions) THEN ws
    ELSE LET tx == transactions[i]
             next == IF tx.tx_type = "Transfer"
                     THEN IF tx.sender = "system"
                          THEN credit(ws, tx.recipient, tx.amount)
                          ELSE transfer(ws, tx.sender, tx.recipient, tx.amount).ws
                     ELSE ws
         IN ApplyTransitions(next, transactions, i + 1)

\* The inner loop of replace_chain's rebuild over block.transactions[i..].
RECURSIVE RebuildBlock(_, _, _)
RebuildBlock(ws, transactions, i) ==
    IF i > Len(transactions) THEN ws
    ELSE LET tx == transactions[i]
             next == IF tx.tx_type = "Transfer"
                     THEN IF tx.sender = "system"
                          THEN credit(ws, tx.recipient, tx.amount)
                          ELSE transfer(ws, tx.sender, tx.recipient, tx.amount).ws
                     ELSE ws
         IN RebuildBlock(next, transactions, i + 1)

\* The outer loop of replace_chain's rebuild over new_chain[b..].
RECURSIVE RebuildState(_, _, _)
RebuildState(ws, new_chain, b) ==
    IF b > Len(new_chain) THEN ws
    ELSE RebuildState(RebuildBlock(ws, new_chain[b].transactions, 1), new_chain, b + 1)

\* The loop of is_chain_valid from position i (0-based) on.
RECURSIVE ChainValidFrom(_, _)
ChainValidFrom(c, i) ==
    IF i >= Len(c) THEN TRUE
    ELSE IF ~is_valid(c[i + 1]) THEN FALSE
    ELSE IF c[i + 1].header.previous_hash # c[i].hash THEN FALSE
    ELSE ChainValidFrom(c, i + 1)

is_chain_valid(c) == ChainValidFrom(c, 1)

latest_block(c) == c[Len(c)]

height(c) == Len(c)

\* ------------------------------------------------------------- inputs
Bytecodes == {<<63>>}
ContractAddresses == {"0xc1"}

\* Transactions handed to add_transaction.
SysTx == new_transfer(1, "system", "alice", 1, 0)
SignedTransfer == sign(new_transfer(2, "alice", "bob", 1, 0), "ka")
SignedCall == sign(Tx(3, "alice", "0xc1", 2, <<>>, "ContractCall", 0), "ka")
UnsignedTransfer == new_transfer(4, "alice", "bob", 1, 0)
TamperedTransfer == [SignedTransfer EXCEPT !.amount = 2]
TxInputs == {SysTx, SignedTransfer, SignedCall, UnsignedTransfer, TamperedTransfer}

\* Chains a peer can send in a ChainResponse.
PeerReward == new_transfer(50, "system", "miner", 2, 1)
PeerTxs == <<SysTx, SignedTransfer, SignedTransfer, SignedCall, PeerReward>>
PeerGenesis == genesis(1)
PeerBlock1 == mine(BlockNew(1, PeerGenesis.hash, PeerTxs, 1, 1))
PeerBlock2 == mine(BlockNew(2, PeerBlock1.hash, <<PeerReward>>, HashDigits, 1))

\* A block whose nonce was changed after mining.
TamperNonce(block) == [block EXCEPT !.header.nonce = @ + 1]

\* A block whose stored hash is the hash of its header but misses the zero prefix.
WeakBlock(index, previous_hash, transactions, now) ==
    LET b0 == BlockNew(index, previous_hash, transactions, HashDigits, now)
        withNonce(n) == LET h == [b0.header EXCEPT !.nonce = n]
                        IN [b0 EXCEPT !.header = h, !.hash = calculate_hash(h)]
    IN CHOOSE b \in {withNonce(n) : n \in 0..(HashSpace - 1)} :
           ~starts_with_zeros(b.hash, HashDigits)

PeerChains ==
    { <<PeerGenesis, PeerBlock1>>,
      <<PeerGenesis, PeerBlock1, PeerBlock2>>,
      <<PeerGenesis, PeerBlock1, TamperNonce(PeerBlock2)>>,
      <<PeerGenesis, PeerBlock1, mine(BlockNew(2, PeerGenesis.hash, <<PeerReward>>, 1, 1))>>,
      <<PeerGenesis, PeerBlock1, WeakBlock(2, PeerBlock1.hash, <<PeerReward>>, 1)>>,
      <<PeerGenesis, TamperNonce(PeerBlock1), PeerBlock2>>,
      <<PeerGenesis, WeakBlock(1, PeerGenesis.hash, <<PeerReward>>, 1)>>,
      <<PeerBlock1, PeerBlock2>> }

\* Chains built on the node's own chain c by a peer that adopted it.
ForkChains(c) ==
    IF Len(c) >= MaxChainLen THEN {c}
    ELSE {c, Append(c, mine(BlockNew(Len(c), c[Len(c)].hash, <<PeerReward>>, 1, 1)))}

CandidateChains(c) == PeerChains \cup ForkChains(c)

\* ------------------------------------------------------------- node state
VARIABLES chain, pending_transactions, difficulty, mining_reward, state,
          ret,        \* the last operation and what it returned
          accepted,   \* how many transactions add_transaction has accepted so far
          net_event_rx,   \* events the network node has sent to the event loop
          net_cmd_rx,     \* commands sent to the network node
          gossip,         \* gossip messages published and not yet delivered
          event_loop,     \* "running", or "stopped" once the loop of main has ended
          api_cmd_rx,     \* commands the API handlers have sent to the forwarding task
          peer_count,     \* the peer counter of AppState
          mutex,          \* "free", or the task that holds the lock of the blockchain
          tasks,          \* for each task, the operation it is in and its local values
          sequential,     \* the blockchain had each operation run alone, in lock order
          transaction,    \* a Transaction value a caller holds
          signed,         \* that transaction as it was when it was last signed
          vm,             \* a VM and how far its execute has come
          vm_bytecode     \* the bytecode handed to execute

netvars == <<net_event_rx, net_cmd_rx, gossip, event_loop, api_cmd_rx, peer_count>>

taskvars == <<mutex, tasks, sequential>>

unitvars == <<transaction, signed, vm, vm_bytecode>>

vars == <<chain, pending_transactions, difficulty, mining_reward, state, ret, accepted,
          net_event_rx, net_cmd_rx, gossip, event_loop, api_cmd_rx, peer_count,
          mutex, tasks, sequential,
          transaction, signed, vm, vm_bytecode>>

\* The tasks that use the blockchain: two API requests and the event loop.
Tasks == {"api1", "api2", "loop"}
Idle == [pc |-> "idle"]

\* AppState::new: the mutex is free and no task is inside an operation.
TaskInit ==
    /\ mutex = "free"
    /\ tasks = [t \in Tasks |-> Idle]
    /\ sequential = [chain |-> chain, pending_transactions |-> pending_transactions,
                     state |-> state]

\* No transaction is held and no VM has been created.
UnitInit ==
    /\ transaction = None
    /\ signed = None
    /\ vm = None
    /\ vm_bytecode = <<>>

\* The channels and the network as main creates them.
NetInit ==
    /\ net_event_rx = <<>>
    /\ net_cmd_rx = <<>>
    /\ gossip = {}
    /\ event_loop = "running"
    /\ api_cmd_rx = <<>>
    /\ peer_count = 0

\* Blockchain::new(difficulty, mining_reward), with the clock reading of Block::genesis.
Init ==
    /\ \E now \in Times : chain = <<genesis(now)>>
    /\ pending_transactions = <<>>
    /\ \E cfg \in Configs : difficulty = cfg.difficulty /\ mining_reward = cfg.mining_reward
    /\ state = WorldState_new
    /\ ret = [op |-> "new", result |-> "Ok"]
    /\ accepted = 0
    /\ NetInit
    /\ TaskInit
    /\ UnitInit

\* add_transaction testing the balance for every transaction type.
add_transaction_result_any_type(ws, tx) ==
    IF tx.sender # "system"
    THEN IF verify(tx) # "Ok" THEN verify(tx)
         ELSE IF get_balance(ws, tx.sender) < tx.amount THEN "InsufficientBalance"
              ELSE "Ok"
    ELSE "Ok"

\* add_transaction testing the balance before the signature.
add_transaction_result_balance_first(ws, tx) ==
    IF tx.sender # "system"
    THEN IF tx.tx_type = "Transfer" /\ get_balance(ws, tx.sender) < tx.amount
         THEN "InsufficientBalance"
         ELSE verify(tx)
    ELSE "Ok"

\* What add_transaction returns for tx in world state ws.
add_transaction_result(ws, tx) ==
    IF tx.sender # "system"
    THEN IF verify(tx) # "Ok" THEN verify(tx)
         ELSE IF tx.tx_type = "Transfer" /\ get_balance(ws, tx.sender) < tx.amount
              THEN "InsufficientBalance"
              ELSE "Ok"
    ELSE "Ok"

add_transaction(tx) ==
    /\ LET r == add_transaction_result(state, tx)
       IN /\ r = "Ok" => accepted < MaxAccepted
          /\ pending_transactions' =
                 IF r = "Ok" THEN Append(pending_transactions, tx) ELSE pending_transactions
          /\ accepted' = IF r = "Ok" THEN accepted + 1 ELSE accepted
          /\ ret' = [op |-> "add_transaction", result |-> r]
    /\ UNCHANGED <<chain, difficulty, mining_reward, state>>

\* mine_pending with the reward transaction placed first in the block.
mine_pending_reward_first(miner_address, now_tx, now_block) ==
    /\ Len(chain) < MaxChainLen
    /\ LET reward_tx == new_transfer(100 + height(chain), "system", miner_address,
                                     mining_reward, now_tx)
           transactions == <<reward_tx>> \o pending_transactions
           block == mine(BlockNew(height(chain), latest_block(chain).hash, transactions,
                                  difficulty, now_block))
       IN /\ pending_transactions' = <<>>
          /\ state' = ApplyTransitions(state, transactions, 1)
          /\ chain' = Append(chain, block)
          /\ ret' = [op |-> "mine_pending", result |-> "Ok", value |-> block]
    /\ UNCHANGED <<difficulty, mining_reward, accepted>>

\* mine_pending building the block from the reward transaction alone.
mine_pending_dropping_mempool(miner_address, now_tx, now_block) ==
    /\ Len(chain) < MaxChainLen
    /\ LET reward_tx == new_transfer(100 + height(chain), "system", miner_address,
                                     mining_reward, now_tx)
           block == mine(BlockNew(height(chain), latest_block(chain).hash, <<reward_tx>>,
                                  difficulty, now_block))
       IN /\ pending_transactions' = <<>>
          /\ state' = ApplyTransitions(state, <<reward_tx>>, 1)
          /\ chain' = Append(chain, block)
          /\ ret' = [op |-> "mine_pending", result |-> "Ok", value |-> block]
    /\ UNCHANGED <<difficulty, mining_reward, accepted>>

mine_pending(miner_address, now_tx, now_block) ==
    /\ Len(chain) < MaxChainLen
    /\ LET reward_tx == new_transfer(100 + height(chain), "system", miner_address,
                                     mining_reward, now_tx)
           transactions == Append(pending_transactions, reward_tx)
           previous_hash == latest_block(chain).hash
           index == height(chain)
           block == mine(BlockNew(index, previous_hash, transactions, difficulty, now_block))
       IN /\ pending_transactions' = <<>>
          /\ state' = ApplyTransitions(state, transactions, 1)
          /\ chain' = Append(chain, block)
          /\ ret' = [op |-> "mine_pending", result |-> "Ok", value |-> block]
    /\ UNCHANGED <<difficulty, mining_reward, accepted>>

\* replace_chain without the validation of the incoming chain.
replace_chain_result_unchecked(c, new_chain) ==
    IF Len(new_chain) <= Len(c) THEN "InvalidChain" ELSE "Ok"

\* replace_chain accepting a chain of the same length.
replace_chain_result_not_shorter(c, new_chain) ==
    IF Len(new_chain) < Len(c) THEN "InvalidChain"
    ELSE IF ~is_chain_valid(new_chain) THEN "InvalidChain"
    ELSE "Ok"

\* replace_chain without the test of the length.
replace_chain_result_any_valid(c, new_chain) ==
    IF ~is_chain_valid(new_chain) THEN "InvalidChain" ELSE "Ok"

\* What replace_chain returns for new_chain when the node's chain is c.
replace_chain_result(c, new_chain) ==
    IF Len(new_chain) <= Len(c) THEN "InvalidChain"
    ELSE IF ~is_chain_valid(new_chain) THEN "InvalidChain"
    ELSE "Ok"

\* replace_chain rebuilding the accounts only, keeping the contracts.
replace_chain_keeping_contracts(new_chain) ==
    /\ LET r == replace_chain_result(chain, new_chain)
       IN /\ ret' = [op |-> "replace_chain", result |-> r,
                     contracts_before |-> DOMAIN state.contracts]
          /\ IF r = "Ok"
             THEN /\ chain' = new_chain
                  /\ state' = [RebuildState(WorldState_new, new_chain, 1)
                                 EXCEPT !.contracts = state.contracts]
             ELSE UNCHANGED <<chain, state>>
    /\ UNCHANGED <<pending_transactions, difficulty, mining_reward, accepted>>

\* replace_chain validating after it has stored the incoming chain.
replace_chain_storing_first(new_chain) ==
    /\ LET r == replace_chain_result(chain, new_chain)
       IN /\ ret' = [op |-> "replace_chain", result |-> r,
                     contracts_before |-> DOMAIN state.contracts]
          /\ IF Len(new_chain) > Len(chain)
             THEN /\ chain' = new_chain
                  /\ state' = IF r = "Ok" THEN RebuildState(WorldState_new, new_chain, 1)
                              ELSE state
             ELSE UNCHANGED <<chain, state>>
    /\ UNCHANGED <<pending_transactions, difficulty, mining_reward, accepted>>

\* replace_chain taking out of the mempool what the adopted chain holds.
replace_chain_pruning_mempool(new_chain) ==
    /\ LET r == replace_chain_result(chain, new_chain)
           kept(tx) == \A b \in 1..Len(new_chain) :
                          \A i \in 1..Len(new_chain[b].transactions) :
                              new_chain[b].transactions[i] # tx
       IN /\ ret' = [op |-> "replace_chain", result |-> r,
                     contracts_before |-> DOMAIN state.contracts]
          /\ IF r = "Ok"
             THEN /\ chain' = new_chain
                  /\ state' = RebuildState(WorldState_new, new_chain, 1)
                  /\ pending_transactions' = SelectSeq(pending_transactions, kept)
             ELSE UNCHANGED <<chain, state, pending_transactions>>
    /\ UNCHANGED <<difficulty, mining_reward, accepted>>

replace_chain(new_chain) ==
    /\ LET r == replace_chain_result(chain, new_chain)
       IN /\ ret' = [op |-> "replace_chain", result |-> r,
                     contracts_before |-> DOMAIN state.contracts]
          /\ IF r = "Ok"
             THEN /\ chain' = new_chain
                  /\ state' = RebuildState(WorldState_new, new_chain, 1)
             ELSE UNCHANGED <<chain, state>>
    /\ UNCHANGED <<pending_transactions, difficulty, mining_reward, accepted>>

\* ContractExecutor::deploy on bc.state_mut(), as the deploy_contract handler calls it.
deploy(sender, bytecode, address) ==
    /\ Cardinality(DOMAIN state.contracts) < MaxContracts
    /\ state' = deploy_contract(state, address, bytecode, sender)
    /\ ret' = [op |-> "deploy", result |-> "Ok"]
    /\ UNCHANGED <<chain, pending_transactions, difficulty, mining_reward, accepted>>

\* The calls of the core made one at a time, the network left aside.
Next ==
    \/ \E tx \in TxInputs : add_transaction(tx) /\ UNCHANGED <<netvars, taskvars, unitvars>>
    \/ \E miner \in Miners, t1 \in Times, t2 \in Times :
          t1 <= t2 /\ mine_pending(miner, t1, t2) /\ UNCHANGED <<netvars, taskvars, unitvars>>
    \/ \E c \in CandidateChains(chain) : replace_chain(c) /\ UNCHANGED <<netvars, taskvars, unitvars>>
    \/ \E b \in Bytecodes, a \in ContractAddresses :
          deploy("alice", b, a) /\ UNCHANGED <<netvars, taskvars, unitvars>>

Spec == Init /\ [][Next]_vars

\* ------------------------------------------------------------- a node among strangers
\* The same calls with what a client or a peer that does not keep to the rules
\* can hand in: a transfer out of alice's account signed with the key of another
\* wallet, and a chain with a block whose transactions were exchanged after
\* mining, the header kept.
ForgedTransfer == sign(new_transfer(5, "alice", "bob", 1, 0), "kb")

SwapTransactions(block, transactions) == [block EXCEPT !.transactions = transactions]

StrangerTxInputs == {SysTx, SignedTransfer, UnsignedTransfer, ForgedTransfer}

StrangerChains(c) ==
    { <<PeerGenesis, PeerBlock1>>,
      <<PeerGenesis, SwapTransactions(PeerBlock1, <<SysTx, UnsignedTransfer>>)>> }
      \cup ForkChains(c)

StrangerNext ==
    \/ \E tx \in StrangerTxInputs :
          add_transaction(tx) /\ UNCHANGED <<netvars, taskvars, unitvars>>
    \/ \E miner \in Miners, t1 \in Times, t2 \in Times :
          t1 <= t2 /\ mine_pending(miner, t1, t2) /\ UNCHANGED <<netvars, taskvars, unitvars>>
    \/ \E c \in StrangerChains(chain) :
          replace_chain(c) /\ UNCHANGED <<netvars, taskvars, unitvars>>

StrangerSpec == Init /\ [][StrangerNext]_vars

\* ------------------------------------------------------------- WorldState alone
\* Calls of WorldState::credit, debit and transfer on a world state of any
\* balances, as the unit tests of state.rs make them.  The world state is held
\* in `state`; the variables of the chain keep the values Blockchain::new gives.
Addresses == {"alice", "bob"}
Amounts == 0..(U64Modulus - 1)

AccountMaps ==
    UNION {[D -> [balance : Amounts, nonce : {0}]] : D \in SUBSET Addresses}

WorldStateInit ==
    /\ chain = <<genesis(0)>>
    /\ pending_transactions = <<>>
    /\ difficulty = 1
    /\ mining_reward = 1
    /\ \E m \in AccountMaps : state = [accounts |-> m, contracts |-> EmptyMap]
    /\ ret = [op |-> "new", result |-> "Ok"]
    /\ accepted = 0
    /\ NetInit
    /\ mutex = "free"
    /\ tasks = [t \in Tasks |-> Idle]
    /\ sequential = [chain |-> chain, pending_transactions |-> <<>>,
                     state |-> WorldState_new]
    /\ UnitInit

call_credit(address, amount) ==
    /\ state' = credit(state, address, amount)
    /\ ret' = [op |-> "credit", result |-> "Ok"]
    /\ UNCHANGED <<chain, pending_transactions, difficulty, mining_reward, accepted>>

call_debit(address, amount) ==
    /\ LET r == debit(state, address, amount)
       IN /\ state' = r.ws
          /\ ret' = [op |-> "debit", result |-> r.ok]
    /\ UNCHANGED <<chain, pending_transactions, difficulty, mining_reward, accepted>>

call_transfer(from, to, amount) ==
    /\ LET r == transfer(state, from, to, amount)
       IN /\ state' = r.ws
          /\ ret' = [op |-> "transfer", result |-> r.ok]
    /\ UNCHANGED <<chain, pending_transactions, difficulty, mining_reward, accepted>>

WorldStateNext ==
    \/ \E a \in Addresses, n \in Amounts : call_credit(a, n) /\ UNCHANGED <<netvars, taskvars, unitvars>>
    \/ \E a \in Addresses, n \in Amounts : call_debit(a, n) /\ UNCHANGED <<netvars, taskvars, unitvars>>
    \/ \E a \in Addresses, b \in Addresses, n \in Amounts :
          call_transfer(a, b, n) /\ UNCHANGED <<netvars, taskvars, unitvars>>

WorldStateSpec == WorldStateInit /\ [][WorldStateNext]_vars

\* ------------------------------------------------------------- node and network
\* NetworkMessage, NetworkEvent and NetworkCommand values.
NewTransaction(tx) == [type |-> "NewTransaction", tx |-> tx]
NewBlock(block) == [type |-> "NewBlock", block |-> block]
ChainRequest == [type |-> "ChainRequest"]
ChainResponse(c) == [type |-> "ChainResponse", chain |-> c]
BroadcastTransaction(tx) == [type |-> "BroadcastTransaction", tx |-> tx]
BroadcastBlock(block) == [type |-> "BroadcastBlock", block |-> block]
RequestChain == [type |-> "RequestChain"]

\* NetworkNode::handle_command: the message published for a command.
command_message(cmd) ==
    IF cmd.type = "BroadcastTransaction" THEN NewTransaction(cmd.tx)
    ELSE IF cmd.type = "BroadcastBlock" THEN NewBlock(cmd.block)
    ELSE ChainRequest

\* The command the event loop sends on a NewBlock event.
NewBlock_command == RequestChain

\* The command the event loop sends on a ChainRequest event, the chain being c.
ChainRequest_command(c) == BroadcastBlock(latest_block(c))

\* A peer running this program on a valid chain of two blocks, and what other
\* participants of the gossip topics publish.
PeerOwnChain == <<PeerGenesis, PeerBlock1>>
ForkBlock == mine(BlockNew(1, genesis(0).hash, <<PeerReward>>, 1, 1))
PeerMessages ==
    { NewBlock(latest_block(PeerOwnChain)), NewBlock(ForkBlock), ChainRequest,
      NewTransaction(SysTx), NewTransaction(SignedTransfer), NewTransaction(UnsignedTransfer),
      ChainResponse(PeerOwnChain), ChainResponse(<<PeerGenesis, TamperNonce(PeerBlock1)>>),
      ChainResponse(<<PeerGenesis>>) }

InNet == Len(net_event_rx) + Len(net_cmd_rx) + Cardinality(gossip)

\* A message reaches the gossip topics from a peer.
peer_publish(m) ==
    /\ InNet < MaxMessages
    /\ m.type = "NewTransaction" => accepted + InNet < MaxAccepted
    /\ gossip' = gossip \cup {[to |-> "node", msg |-> m]}
    /\ UNCHANGED <<chain, pending_transactions, difficulty, mining_reward, state, ret,
                   accepted, net_event_rx, net_cmd_rx, event_loop, api_cmd_rx, peer_count>>

\* The peer receives a message of the node and answers as this program does:
\* its event loop sends a command and its network node publishes it.
peer_receive(g) ==
    /\ g \in gossip
    /\ g.to = "peer"
    /\ gossip' =
          (gossip \ {g}) \cup
          (IF g.msg.type = "ChainRequest"
           THEN {[to |-> "node", msg |-> command_message(ChainRequest_command(PeerOwnChain))]}
           ELSE IF g.msg.type = "NewBlock"
           THEN {[to |-> "node", msg |-> command_message(NewBlock_command)]}
           ELSE {})
    /\ UNCHANGED <<chain, pending_transactions, difficulty, mining_reward, state, ret,
                   accepted, net_event_rx, net_cmd_rx, event_loop, api_cmd_rx, peer_count>>

\* NetworkNode::handle_swarm_event for a gossipsub message: the event is sent to
\* the event loop.
handle_swarm_event(g) ==
    /\ g \in gossip
    /\ g.to = "node"
    /\ gossip' = gossip \ {g}
    /\ net_event_rx' = Append(net_event_rx,
                              IF g.msg.type = "ChainRequest"
                              THEN [type |-> "ChainRequest", peer |-> "peer"]
                              ELSE g.msg)
    /\ UNCHANGED <<chain, pending_transactions, difficulty, mining_reward, state, ret,
                   accepted, net_cmd_rx, event_loop, api_cmd_rx, peer_count>>

\* NetworkNode::handle_command: the command is published; a message equal to one
\* under way has the same message id and is not published again.
handle_command ==
    /\ net_cmd_rx # <<>>
    /\ net_cmd_rx' = Tail(net_cmd_rx)
    /\ gossip' = gossip \cup {[to |-> "peer", msg |-> command_message(Head(net_cmd_rx))]}
    /\ UNCHANGED <<chain, pending_transactions, difficulty, mining_reward, state, ret,
                   accepted, net_event_rx, event_loop, api_cmd_rx, peer_count>>

\* The event loop of main, one arm of the match per action.
\* The NewTransaction arm handing the error of add_transaction to its caller.
on_NewTransaction_propagating ==
    /\ event_loop = "running"
    /\ net_event_rx # <<>>
    /\ Head(net_event_rx).type = "NewTransaction"
    /\ add_transaction(Head(net_event_rx).tx)
    /\ net_event_rx' = Tail(net_event_rx)
    /\ event_loop' = IF add_transaction_result(state, Head(net_event_rx).tx) = "Ok"
                     THEN "running" ELSE "stopped"
    /\ UNCHANGED <<net_cmd_rx, gossip, api_cmd_rx, peer_count>>

on_NewTransaction ==
    /\ event_loop = "running"
    /\ net_event_rx # <<>>
    /\ Head(net_event_rx).type = "NewTransaction"
    /\ add_transaction(Head(net_event_rx).tx)
    /\ net_event_rx' = Tail(net_event_rx)
    /\ UNCHANGED <<net_cmd_rx, gossip, event_loop, api_cmd_rx, peer_count>>

\* The NewBlock arm appending a block that links to the last block.
on_NewBlock_appending ==
    /\ event_loop = "running"
    /\ net_event_rx # <<>>
    /\ Head(net_event_rx).type = "NewBlock"
    /\ net_event_rx' = Tail(net_event_rx)
    /\ net_cmd_rx' = Append(net_cmd_rx, NewBlock_command)
    /\ chain' = IF Head(net_event_rx).block.header.previous_hash = latest_block(chain).hash
                THEN Append(chain, Head(net_event_rx).block) ELSE chain
    /\ ret' = [op |-> "NewBlock", result |-> "Ok"]
    /\ UNCHANGED <<pending_transactions, difficulty, mining_reward, state, accepted,
                   gossip, event_loop, api_cmd_rx, peer_count>>

on_NewBlock ==
    /\ event_loop = "running"
    /\ net_event_rx # <<>>
    /\ Head(net_event_rx).type = "NewBlock"
    /\ net_event_rx' = Tail(net_event_rx)
    /\ net_cmd_rx' = Append(net_cmd_rx, NewBlock_command)
    /\ ret' = [op |-> "NewBlock", result |-> "Ok"]
    /\ UNCHANGED <<chain, pending_transactions, difficulty, mining_reward, state, accepted,
                   gossip, event_loop, api_cmd_rx, peer_count>>

on_ChainRequest ==
    /\ event_loop = "running"
    /\ net_event_rx # <<>>
    /\ Head(net_event_rx).type = "ChainRequest"
    /\ net_event_rx' = Tail(net_event_rx)
    /\ net_cmd_rx' = Append(net_cmd_rx, ChainRequest_command(chain))
    /\ ret' = [op |-> "ChainRequest", result |-> "Ok"]
    /\ UNCHANGED <<chain, pending_transactions, difficulty, mining_reward, state, accepted,
                   gossip, event_loop, api_cmd_rx, peer_count>>

on_ChainResponse ==
    /\ event_loop = "running"
    /\ net_event_rx # <<>>
    /\ Head(net_event_rx).type = "ChainResponse"
    /\ replace_chain(Head(net_event_rx).chain)
    /\ net_event_rx' = Tail(net_event_rx)
    /\ UNCHANGED <<net_cmd_rx, gossip, event_loop, api_cmd_rx, peer_count>>

NetNext ==
    \/ \E m \in PeerMessages : peer_publish(m) /\ UNCHANGED <<taskvars, unitvars>>
    \/ \E g \in gossip : peer_receive(g) /\ UNCHANGED <<taskvars, unitvars>>
    \/ \E g \in gossip : handle_swarm_event(g) /\ UNCHANGED <<taskvars, unitvars>>
    \/ handle_command /\ UNCHANGED <<taskvars, unitvars>>
    \/ on_NewTransaction /\ UNCHANGED <<taskvars, unitvars>>
    \/ on_NewBlock /\ UNCHANGED <<taskvars, unitvars>>
    \/ on_ChainRequest /\ UNCHANGED <<taskvars, unitvars>>
    \/ on_ChainResponse /\ UNCHANGED <<taskvars, unitvars>>

NetSpec == Init /\ [][NetNext]_vars

\* The messages the node publishes in this network.
NodeMessages == {ChainRequest, NewBlock(genesis(0)), NewBlock(latest_block(PeerOwnChain))}

\* Every message published is delivered, every command is handled and the event
\* loop keeps taking events.
NetFairSpec ==
    /\ NetSpec
    /\ \A m \in NodeMessages :
          WF_vars(peer_receive([to |-> "peer", msg |-> m]) /\ UNCHANGED <<taskvars, unitvars>>)
    /\ \A m \in PeerMessages :
          WF_vars(handle_swarm_event([to |-> "node", msg |-> m]) /\ UNCHANGED <<taskvars, unitvars>>)
    /\ WF_vars(handle_command /\ UNCHANGED <<taskvars, unitvars>>)
    /\ WF_vars((on_NewTransaction \/ on_NewBlock \/ on_ChainRequest \/ on_ChainResponse)
                  /\ UNCHANGED <<taskvars, unitvars>>)

\* ------------------------------------------------------------- tasks and the mutex
\* The operations the tasks run on the blockchain: create_transaction, mine_block
\* and deploy_contract by the API tasks, the NewTransaction and ChainResponse arms
\* by the event loop.
LockOps(t) ==
    {[name |-> "add_transaction", tx |-> tx] : tx \in {SysTx, SignedTransfer}}
      \cup (IF t = "loop"
            THEN {[name |-> "replace_chain", chain |-> c] :
                     c \in {PeerOwnChain, <<PeerGenesis, TamperNonce(PeerBlock1)>>}}
            ELSE {[name |-> "mine_pending", miner |-> "miner-node"],
                  [name |-> "deploy", sender |-> "alice", bytecode |-> <<63>>,
                   address |-> "0xc1"]})

\* The blockchain after op has run alone on the blockchain s.
Sequential(s, op) ==
    IF op.name = "add_transaction"
    THEN IF add_transaction_result(s.state, op.tx) = "Ok"
         THEN [s EXCEPT !.pending_transactions = Append(@, op.tx)]
         ELSE s
    ELSE IF op.name = "mine_pending"
    THEN LET transactions ==
                 Append(s.pending_transactions,
                        new_transfer(100 + height(s.chain), "system", op.miner,
                                     mining_reward, 0))
             block == mine(BlockNew(height(s.chain), latest_block(s.chain).hash,
                                    transactions, difficulty, 0))
         IN [chain |-> Append(s.chain, block), pending_transactions |-> <<>>,
             state |-> ApplyTransitions(s.state, transactions, 1)]
    ELSE IF op.name = "deploy"
    THEN [s EXCEPT !.state = deploy_contract(@, op.address, op.bytecode, op.sender)]
    ELSE IF replace_chain_result(s.chain, op.chain) = "Ok"
         THEN [chain |-> op.chain, pending_transactions |-> s.pending_transactions,
               state |-> RebuildState(WorldState_new, op.chain, 1)]
         ELSE s

\* blockchain.lock().await granted although another task holds the lock.
lock_unguarded(t, op) ==
    /\ tasks[t] = Idle
    /\ op.name = "add_transaction" => accepted < MaxAccepted
    /\ op.name = "mine_pending" => Len(sequential.chain) < MaxChainLen
    /\ op.name = "deploy" => Cardinality(DOMAIN sequential.state.contracts) < MaxContracts
    /\ mutex' = t
    /\ tasks' = [tasks EXCEPT ![t] = [pc |-> op.name, op |-> op]]
    /\ sequential' = Sequential(sequential, op)
    /\ accepted' = IF op.name = "add_transaction" THEN accepted + 1 ELSE accepted
    /\ UNCHANGED <<chain, pending_transactions, difficulty, mining_reward, state, ret>>

\* state.blockchain.lock().await: task t enters the locked region to run op.
lock(t, op) ==
    /\ mutex = "free"
    /\ tasks[t] = Idle
    /\ op.name = "add_transaction" => accepted < MaxAccepted
    /\ op.name = "mine_pending" => Len(sequential.chain) < MaxChainLen
    /\ op.name = "deploy" => Cardinality(DOMAIN sequential.state.contracts) < MaxContracts
    /\ mutex' = t
    /\ tasks' = [tasks EXCEPT ![t] = [pc |-> op.name, op |-> op]]
    /\ sequential' = Sequential(sequential, op)
    /\ accepted' = IF op.name = "add_transaction" THEN accepted + 1 ELSE accepted
    /\ UNCHANGED <<chain, pending_transactions, difficulty, mining_reward, state, ret>>

\* The guard of the mutex is dropped when the handler or the arm ends.
unlock(t, result) ==
    /\ mutex' = "free"
    /\ tasks' = [tasks EXCEPT ![t] = Idle]
    /\ ret' = [op |-> tasks[t].op.name, result |-> result]

\* add_transaction up to the push: the signature and balance tests.
add_transaction_check(t) ==
    /\ tasks[t].pc = "add_transaction"
    /\ LET r == add_transaction_result(state, tasks[t].op.tx)
       IN IF r = "Ok"
          THEN /\ tasks' = [tasks EXCEPT ![t].pc = "push"]
               /\ UNCHANGED <<mutex, ret>>
          ELSE unlock(t, r)
    /\ UNCHANGED <<chain, pending_transactions, difficulty, mining_reward, state,
                   accepted, sequential>>

\* self.pending_transactions.push(tx)
add_transaction_push(t) ==
    /\ tasks[t].pc = "push"
    /\ pending_transactions' = Append(pending_transactions, tasks[t].op.tx)
    /\ unlock(t, "Ok")
    /\ UNCHANGED <<chain, difficulty, mining_reward, state, accepted, sequential>>

\* mine_pending: the reward transaction and the drain of the mempool.
mine_pending_drain(t) ==
    /\ tasks[t].pc = "mine_pending"
    /\ tasks' = [tasks EXCEPT ![t] =
                    [pc |-> "apply", op |-> @.op,
                     transactions |->
                         Append(pending_transactions,
                                new_transfer(100 + height(chain), "system", @.op.miner,
                                             mining_reward, 0))]]
    /\ pending_transactions' = <<>>
    /\ UNCHANGED <<chain, difficulty, mining_reward, state, ret, accepted, mutex, sequential>>

\* mine_pending: the state transitions of the drained transactions.
mine_pending_apply(t) ==
    /\ tasks[t].pc = "apply"
    /\ state' = ApplyTransitions(state, tasks[t].transactions, 1)
    /\ tasks' = [tasks EXCEPT ![t].pc = "mine"]
    /\ UNCHANGED <<chain, pending_transactions, difficulty, mining_reward, ret, accepted,
                   mutex, sequential>>

\* mine_pending: the block is built on the last block, mined and pushed.
mine_pending_push(t) ==
    /\ tasks[t].pc = "mine"
    /\ chain' = Append(chain, mine(BlockNew(height(chain), latest_block(chain).hash,
                                            tasks[t].transactions, difficulty, 0)))
    /\ unlock(t, "Ok")
    /\ UNCHANGED <<pending_transactions, difficulty, mining_reward, state, accepted,
                   sequential>>

\* replace_chain up to the rebuild: the length and validity tests.
replace_chain_check(t) ==
    /\ tasks[t].pc = "replace_chain"
    /\ LET r == replace_chain_result(chain, tasks[t].op.chain)
       IN IF r = "Ok"
          THEN /\ tasks' = [tasks EXCEPT ![t].pc = "store"]
               /\ UNCHANGED <<mutex, ret>>
          ELSE unlock(t, r)
    /\ UNCHANGED <<chain, pending_transactions, difficulty, mining_reward, state,
                   accepted, sequential>>

\* replace_chain: the state is rebuilt and chain and state are stored.
replace_chain_store(t) ==
    /\ tasks[t].pc = "store"
    /\ chain' = tasks[t].op.chain
    /\ state' = RebuildState(WorldState_new, tasks[t].op.chain, 1)
    /\ unlock(t, "Ok")
    /\ UNCHANGED <<pending_transactions, difficulty, mining_reward, accepted, sequential>>

\* ContractExecutor::deploy(bc.state_mut(), ..) in the deploy_contract handler.
deploy_locked(t) ==
    /\ tasks[t].pc = "deploy"
    /\ state' = deploy_contract(state, tasks[t].op.address, tasks[t].op.bytecode,
                                tasks[t].op.sender)
    /\ unlock(t, "Ok")
    /\ UNCHANGED <<chain, pending_transactions, difficulty, mining_reward, accepted,
                   sequential>>

LockNext ==
    \/ \E t \in Tasks : \E op \in LockOps(t) : lock(t, op) /\ UNCHANGED <<netvars, unitvars>>
    \/ \E t \in Tasks : add_transaction_check(t) /\ UNCHANGED <<netvars, unitvars>>
    \/ \E t \in Tasks : add_transaction_push(t) /\ UNCHANGED <<netvars, unitvars>>
    \/ \E t \in Tasks : mine_pending_drain(t) /\ UNCHANGED <<netvars, unitvars>>
    \/ \E t \in Tasks : mine_pending_apply(t) /\ UNCHANGED <<netvars, unitvars>>
    \/ \E t \in Tasks : mine_pending_push(t) /\ UNCHANGED <<netvars, unitvars>>
    \/ \E t \in Tasks : replace_chain_check(t) /\ UNCHANGED <<netvars, unitvars>>
    \/ \E t \in Tasks : replace_chain_store(t) /\ UNCHANGED <<netvars, unitvars>>
    \/ \E t \in Tasks : deploy_locked(t) /\ UNCHANGED <<netvars, unitvars>>

LockSpec == Init /\ [][LockNext]_vars

\* ------------------------------------------------------------- Transaction alone
\* A caller builds a transfer, signs it, assigns its public fields and calls
\* verify, as the unit tests of transaction.rs and wallet.rs do.  The variables
\* of the chain keep the values Blockchain::new gives.
Ids == {1, 11}
Senders == {"alice", "1alice", "alic", "system"}
Recipients == {"bob", "ebob"}
TxAmounts == {1, 2}
Timestamps == {0, 1}
SigningKeys == {"ka", "kb"}

\* The fields the signable digest is computed from.
SignedFields(tx) == <<tx.id, tx.sender, tx.recipient, tx.amount, tx.timestamp>>

TransactionInit ==
    /\ chain = <<genesis(0)>>
    /\ pending_transactions = <<>>
    /\ difficulty = 1
    /\ mining_reward = 1
    /\ state = WorldState_new
    /\ ret = [op |-> "new", result |-> "Ok"]
    /\ accepted = 0
    /\ NetInit
    /\ TaskInit
    /\ \E id \in Ids, sender \in Senders, recipient \in Recipients, amount \in TxAmounts,
          timestamp \in Timestamps :
          transaction = new_transfer(id, sender, recipient, amount, timestamp)
    /\ signed = None
    /\ vm = None
    /\ vm_bytecode = <<>>

nodevars == <<chain, pending_transactions, difficulty, mining_reward, state, accepted>>

\* tx.sign(&signing_key)
call_sign(key) ==
    /\ transaction' = sign(transaction, key)
    /\ signed' = Some(transaction')
    /\ ret' = [op |-> "sign", result |-> "Ok"]
    /\ UNCHANGED <<nodevars, vm, vm_bytecode>>

\* An assignment to one public field of the transaction.
set_field(field, value) ==
    /\ transaction[field] # value
    /\ transaction' = [transaction EXCEPT ![field] = value]
    /\ ret' = [op |-> "set", result |-> "Ok"]
    /\ UNCHANGED <<nodevars, signed, vm, vm_bytecode>>

\* tx.verify()
call_verify ==
    /\ ret' = [op |-> "verify", result |-> verify(transaction)]
    /\ UNCHANGED <<nodevars, transaction, signed, vm, vm_bytecode>>

TransactionNext ==
    \/ \E key \in SigningKeys : call_sign(key) /\ UNCHANGED <<netvars, taskvars>>
    \/ \E v \in Ids : set_field("id", v) /\ UNCHANGED <<netvars, taskvars>>
    \/ \E v \in Senders : set_field("sender", v) /\ UNCHANGED <<netvars, taskvars>>
    \/ \E v \in Recipients : set_field("recipient", v) /\ UNCHANGED <<netvars, taskvars>>
    \/ \E v \in TxAmounts : set_field("amount", v) /\ UNCHANGED <<netvars, taskvars>>
    \/ \E v \in Timestamps : set_field("timestamp", v) /\ UNCHANGED <<netvars, taskvars>>
    \/ call_verify /\ UNCHANGED <<netvars, taskvars>>

TransactionSpec == TransactionInit /\ [][TransactionNext]_vars

\* ------------------------------------------------------------- the VM
\* VM::execute run on its own, one iteration of its loop per step.  i64 values
\* are kept to I64Bits bits; a PUSH operand still takes OPERAND_BYTES bytes of
\* the bytecode, of which the low byte decides the value at this width.
I64Modulus == Pow(2, I64Bits)
I64Min == 0 - Pow(2, I64Bits - 1)
ByteModulus == Pow(2, 8)

\* The saturating counterpart of the wrapping operations.
WrapI64_saturating(x) ==
    IF x < I64Min THEN I64Min ELSE IF x > 0 - I64Min - 1 THEN 0 - I64Min - 1 ELSE x

\* An integer brought into the range of i64 (wrapping_add, wrapping_sub, ...).
WrapI64(x) == ((x - I64Min) % I64Modulus) + I64Min

\* value as u64 / as usize: the two's complement bits read as unsigned.
AsUnsigned(x) == x % I64Modulus

Abs(x) == IF x < 0 THEN 0 - x ELSE x

\* a / b and a % b of i64 for b # 0: the quotient is rounded toward zero.
TruncDiv(a, b) ==
    IF (a < 0) = (b < 0) THEN Abs(a) \div Abs(b) ELSE 0 - (Abs(a) \div Abs(b))
TruncRem(a, b) == a - b * TruncDiv(a, b)

OpCode_from_byte(byte) ==
    CASE byte = 1 -> "Push"   [] byte = 2 -> "Pop"     [] byte = 3 -> "Dup"
      [] byte = 4 -> "Swap"   [] byte = 16 -> "Add"    [] byte = 17 -> "Sub"
      [] byte = 18 -> "Mul"   [] byte = 19 -> "Div"    [] byte = 20 -> "Mod"
      [] byte = 32 -> "Eq"    [] byte = 33 -> "Lt"     [] byte = 34 -> "Gt"
      [] byte = 35 -> "Not"   [] byte = 48 -> "Jump"   [] byte = 49 -> "JumpIf"
      [] byte = 63 -> "Halt"  [] byte = 64 -> "Store"  [] byte = 65 -> "Load"
      [] byte = 80 -> "Log"   [] OTHER -> "None"

OpCodeBytes == {1, 2, 3, 4, 16, 17, 18, 19, 20, 32, 33, 34, 35, 48, 49, 63, 64, 65, 80}

\* val.to_le_bytes(): the low byte first, then the sign extension.
to_le_bytes(val) ==
    [i \in 1..OPERAND_BYTES |->
        IF i = 1 THEN val % ByteModulus ELSE IF val < 0 THEN ByteModulus - 1 ELSE 0]

\* i64::from_le_bytes at the width of the model.
from_le_bytes(bytes) == WrapI64(bytes[1])

\* push_val of the tests: the bytes of PUSH val.
push_val(val) == <<1>> \o to_le_bytes(val)

\* The bytecodes executed: every sequence of up to MaxInstructions of a few
\* instructions (an unknown opcode among them), and every opcode after two PUSHes.
Instructions ==
    {push_val(0), push_val(1), <<2>>, <<3>>, <<16>>, <<48>>, <<49>>, <<63>>, <<0>>}

RECURSIVE Flatten(_)
Flatten(seqs) == IF seqs = <<>> THEN <<>> ELSE Head(seqs) \o Flatten(Tail(seqs))

OperandValues == {I64Min, 0 - 1, 0, 2}

\* PUSH a; PUSH b; op, with and without a HALT after it.
TwoOperandPrograms ==
    {push_val(a) \o push_val(b) \o <<op>> \o halt :
        a \in OperandValues, b \in OperandValues, op \in OpCodeBytes, halt \in {<<>>, <<63>>}}

\* PUSH condition; PUSH target; JUMP or JUMPIF; HALT.  The targets are a negative
\* one, the first byte, the HALT and the length of the bytecode.
JumpPrograms ==
    {push_val(condition) \o push_val(target) \o <<op>> \o <<63>> :
        condition \in {0, 1}, op \in {48, 49},
        target \in {0 - 1, 0, 2 * (1 + OPERAND_BYTES) + 1, 2 * (1 + OPERAND_BYTES) + 2}}

\* PUSH key; PUSH value; STORE; PUSH key2; LOAD, and PUSH key; LOAD.
StoragePrograms ==
    {push_val(key) \o push_val(value) \o <<64>> \o push_val(key2) \o <<65>> :
        key \in {0 - 1, 0}, key2 \in {0 - 1, 0}, value \in {0, 2}}
    \cup {push_val(key) \o <<65>> : key \in {0 - 1, 0}}

Bytecodes_vm ==
    {Flatten(is) : is \in UNION {[1..n -> Instructions] : n \in 0..MaxInstructions}}
    \cup TwoOperandPrograms \cup JumpPrograms \cup StoragePrograms

\* The storages a VM is seeded with: none, and one that holds a value at key 0.
Storages == {EmptyMap, Put(EmptyMap, 0, 1)}

\* VM::new(), with the count of the instructions execute has dispatched and
\* what execute returned, None while it runs.
VM_new ==
    [stack |-> <<>>, pc |-> 0, storage |-> EmptyMap, logs |-> <<>>, steps |-> 0,
     executed |-> 0, result |-> None]

\* VM::with_storage
with_storage(v, storage) == [v EXCEPT !.storage = storage]

\* return Err(err), also through the ? operator; a VM that has returned stays as it is.
Err(v, err) == IF v.result # None THEN v ELSE [v EXCEPT !.result = Some(err)]

\* VM::push testing the length with > in place of >=.
vm_push_late(v, value) ==
    IF v.result # None THEN v
    ELSE IF Len(v.stack) > MAX_STACK_SIZE THEN Err(v, "StackOverflow")
    ELSE [v EXCEPT !.stack = Append(@, value)]

vm_push(v, value) ==
    IF v.result # None THEN v
    ELSE IF Len(v.stack) >= MAX_STACK_SIZE THEN Err(v, "StackOverflow")
    ELSE [v EXCEPT !.stack = Append(@, value)]

\* VM::pop: the VM after the pop; the value popped is peek of the VM before.
vm_pop(v) ==
    IF v.result # None THEN v
    ELSE IF v.stack = <<>> THEN Err(v, "StackUnderflow")
    ELSE [v EXCEPT !.stack = SubSeq(@, 1, Len(@) - 1)]

peek(v) == IF v.stack = <<>> THEN 0 ELSE v.stack[Len(v.stack)]

\* The Push arm with read_i64 advancing pc by 8 in place of 7.
read_i64_and_push_long(v, code) ==
    LET at == v.pc + 1
    IN IF at + OPERAND_BYTES > Len(code)
       THEN Err([v EXCEPT !.pc = at], "PcOutOfBounds")
       ELSE vm_push([v EXCEPT !.pc = at + OPERAND_BYTES],
                    from_le_bytes(SubSeq(code, at + 1, at + OPERAND_BYTES)))

\* read_i64 after the pc += 1 of the Push arm, and the push of the value read.
read_i64_and_push(v, code) ==
    LET at == v.pc + 1
    IN IF at + OPERAND_BYTES > Len(code)
       THEN Err([v EXCEPT !.pc = at], "PcOutOfBounds")
       ELSE vm_push([v EXCEPT !.pc = at + OPERAND_BYTES - 1],
                    from_le_bytes(SubSeq(code, at + 1, at + OPERAND_BYTES)))

\* The Div and Mod arms after their two pops.  a / b and a % b overflow for
\* a = i64::MIN, b = -1, on which Rust panics in every build.
div_or_mod_testing_dividend(v, a, b, opcode) ==
    IF a = 0 THEN Err(v, "DivisionByZero")
    ELSE IF b = 0 \/ (a = I64Min /\ b = 0 - 1) THEN Err(v, "panic")
    ELSE vm_push(v, IF opcode = "Div" THEN TruncDiv(a, b) ELSE TruncRem(a, b))
div_or_mod(v, a, b, opcode) ==
    IF b = 0 THEN Err(v, "DivisionByZero")
    ELSE IF a = I64Min /\ b = 0 - 1 THEN Err(v, "panic")
    ELSE vm_push(v, IF opcode = "Div" THEN TruncDiv(a, b) ELSE TruncRem(a, b))

\* The arms that pop b, pop a and push a value, or fail on it.
binary_arm(v, opcode) ==
    LET b == peek(v)
        v1 == vm_pop(v)
        a == peek(v1)
        v2 == vm_pop(v1)
    IN IF v2.result # None THEN v2
       ELSE CASE opcode = "Add" -> vm_push(v2, WrapI64(a + b))
              [] opcode = "Sub" -> vm_push(v2, WrapI64(a - b))
              [] opcode = "Mul" -> vm_push(v2, WrapI64(a * b))
              [] opcode \in {"Div", "Mod"} -> div_or_mod(v2, a, b, opcode)
              [] opcode = "Eq" -> vm_push(v2, IF a = b THEN 1 ELSE 0)
              [] opcode = "Lt" -> vm_push(v2, IF a < b THEN 1 ELSE 0)
              [] opcode = "Gt" -> vm_push(v2, IF a > b THEN 1 ELSE 0)

\* The jump testing the target with > in place of >=.
jump_to_end_allowed(v, target, code) ==
    IF v.result # None THEN v
    ELSE IF target < 0 \/ target > Len(code) THEN Err(v, "InvalidJump")
    ELSE [v EXCEPT !.pc = target, !.result = Some("continue")]

\* pc = target and continue, or InvalidJump.
jump_to(v, target, code) ==
    IF v.result # None THEN v
    ELSE IF target < 0 \/ target >= Len(code) THEN Err(v, "InvalidJump")
    ELSE [v EXCEPT !.pc = target, !.result = Some("continue")]

\* The Store arm: pop value, pop key, insert.
store_arm_key_first(v) ==
    LET key == AsUnsigned(peek(v))
        v1 == vm_pop(v)
        value == peek(v1)
        v2 == vm_pop(v1)
    IN IF v2.result # None THEN v2
       ELSE [v2 EXCEPT !.storage = Put(@, key, value)]
store_arm(v) ==
    LET value == peek(v)
        v1 == vm_pop(v)
        key == AsUnsigned(peek(v1))
        v2 == vm_pop(v1)
    IN IF v2.result # None THEN v2
       ELSE [v2 EXCEPT !.storage = Put(@, key, value)]

\* The match on the opcode.  The result "continue" or "break" marks how the arm
\* left the match; any other result is what execute returns.
match_opcode(v, opcode, code) ==
    CASE opcode = "Push" -> read_i64_and_push(v, code)
      [] opcode = "Pop" -> vm_pop(v)
      [] opcode = "Dup" ->
            IF v.stack = <<>> THEN Err(v, "StackUnderflow") ELSE vm_push(v, peek(v))
      [] opcode = "Swap" ->
            LET a == peek(v)
                v1 == vm_pop(v)
                b == peek(v1)
            IN vm_push(vm_push(vm_pop(v1), a), b)
      [] opcode \in {"Add", "Sub", "Mul", "Div", "Mod", "Eq", "Lt", "Gt"} ->
            binary_arm(v, opcode)
      [] opcode = "Not" ->
            LET a == peek(v) IN vm_push(vm_pop(v), IF a = 0 THEN 1 ELSE 0)
      [] opcode = "Jump" -> jump_to(vm_pop(v), peek(v), code)
      [] opcode = "JumpIf" ->
            LET target == peek(v)
                v1 == vm_pop(v)
                condition == peek(v1)
                v2 == vm_pop(v1)
            IN IF v2.result = None /\ condition # 0 THEN jump_to(v2, target, code) ELSE v2
      [] opcode = "Halt" -> [v EXCEPT !.result = Some("break")]
      [] opcode = "Store" -> store_arm(v)
      [] opcode = "Load" ->
            LET key == AsUnsigned(peek(v))
                v1 == vm_pop(v)
            IN vm_push(v1, IF key \in DOMAIN v1.storage THEN v1.storage[key] ELSE 0)
      [] opcode = "Log" ->
            LET value == peek(v)
                v1 == vm_pop(v)
            IN IF v1.result # None THEN v1 ELSE [v1 EXCEPT !.logs = Append(@, value)]

\* The test at the head of the loop body.
gas_limit_reached_late(steps) == steps > MAX_STEPS
gas_limit_reached(steps) == steps >= MAX_STEPS

\* One pass through the body of the while loop, for self.pc < bytecode.len().
loop_body(v, code) ==
    IF gas_limit_reached(v.steps) THEN Err(v, "GasLimitExceeded")
    ELSE LET v1 == [v EXCEPT !.steps = @ + 1]
             opcode == OpCode_from_byte(code[v1.pc + 1])
         IN IF opcode = "None" THEN Err(v1, "InvalidOpcode")
            ELSE LET v2 == match_opcode([v1 EXCEPT !.executed = @ + 1], opcode, code)
                 IN IF v2.result = None THEN [v2 EXCEPT !.pc = @ + 1]
                    ELSE IF v2.result = Some("continue") THEN [v2 EXCEPT !.result = None]
                    ELSE IF v2.result = Some("break") THEN [v2 EXCEPT !.result = Some("Ok")]
                    ELSE v2

\* vm.execute(&bytecode) on VM::new(), or on VM::new().with_storage(..) for the
\* bytecodes that use the storage, up to the first test of the loop.
VmInit ==
    /\ chain = <<genesis(0)>>
    /\ pending_transactions = <<>>
    /\ difficulty = 1
    /\ mining_reward = 1
    /\ state = WorldState_new
    /\ ret = [op |-> "new", result |-> "Ok"]
    /\ accepted = 0
    /\ NetInit
    /\ TaskInit
    /\ transaction = None
    /\ signed = None
    /\ vm_bytecode \in Bytecodes_vm
    /\ \E storage \in Storages :
          /\ storage # EmptyMap => vm_bytecode \in StoragePrograms
          /\ vm = Some(with_storage(VM_new, storage))

execute_loop ==
    /\ vm[1].result = None
    /\ vm[1].pc < Len(vm_bytecode)
    /\ vm' = Some(loop_body(vm[1], vm_bytecode))
    /\ UNCHANGED <<nodevars, ret, transaction, signed, vm_bytecode>>

\* The loop ended because pc reached the end: Ok(ExecutionResult { .. }).
execute_return ==
    /\ vm[1].result = None
    /\ vm[1].pc >= Len(vm_bytecode)
    /\ vm' = Some([vm[1] EXCEPT !.result = Some("Ok")])
    /\ UNCHANGED <<nodevars, ret, transaction, signed, vm_bytecode>>

VmNext ==
    \/ execute_loop /\ UNCHANGED <<netvars, taskvars>>
    \/ execute_return /\ UNCHANGED <<netvars, taskvars>>

VmSpec == VmInit /\ [][VmNext]_vars

\* The thread that called execute keeps running it.
VmFairSpec == VmSpec /\ WF_vars(VmNext)

\* ------------------------------------------------------------- ContractExecutor
\* The whole of VM::execute on a VM: pc and steps set to 0, then the loop.
RECURSIVE run_loop(_, _)
run_loop(v, code) ==
    IF v.result # None THEN v
    ELSE IF v.pc >= Len(code) THEN [v EXCEPT !.result = Some("Ok")]
    ELSE run_loop(loop_body(v, code), code)

execute(v, code) == run_loop([v EXCEPT !.pc = 0, !.steps = 0], code)

\* ContractResult { stack_top, logs, steps_used } of an ExecutionResult.
ContractResult(r) ==
    [stack_top |-> IF r.stack = <<>> THEN None ELSE Some(r.stack[Len(r.stack)]),
     logs |-> r.logs, steps_used |-> r.steps]

\* call running the bytecode on VM::new() without the saved storage.
ContractExecutor_call_unseeded(ws, contract_address) ==
    IF contract_address \notin DOMAIN ws.contracts
    THEN [ws |-> ws, result |-> "ContractError", value |-> None]
    ELSE LET contract == ws.contracts[contract_address]
             r == execute(VM_new, contract.bytecode)
         IN IF r.result # Some("Ok")
            THEN [ws |-> ws, result |-> r.result[1], value |-> None]
            ELSE [ws |-> [ws EXCEPT !.contracts[contract_address].storage = r.storage],
                  result |-> "Ok", value |-> Some(ContractResult(r))]

\* call writing the storage of the VM back before it looks at the result.
ContractExecutor_call_writing_first(ws, contract_address) ==
    IF contract_address \notin DOMAIN ws.contracts
    THEN [ws |-> ws, result |-> "ContractError", value |-> None]
    ELSE LET contract == ws.contracts[contract_address]
             r == execute(with_storage(VM_new, contract.storage), contract.bytecode)
             written == [ws EXCEPT !.contracts[contract_address].storage = r.storage]
         IN IF r.result # Some("Ok")
            THEN [ws |-> written, result |-> r.result[1], value |-> None]
            ELSE [ws |-> written, result |-> "Ok", value |-> Some(ContractResult(r))]

\* ContractExecutor::call: the world state after it, Ok or the error, and the
\* ContractResult.
\* call saving the storage the run returned into every contract.
ContractExecutor_call_saving_everywhere(ws, contract_address) ==
    IF contract_address \notin DOMAIN ws.contracts
    THEN [ws |-> ws, result |-> "ContractError", value |-> None]
    ELSE LET contract == ws.contracts[contract_address]
             r == execute(with_storage(VM_new, contract.storage), contract.bytecode)
         IN IF r.result # Some("Ok")
            THEN [ws |-> ws, result |-> r.result[1], value |-> None]
            ELSE [ws |-> [ws EXCEPT !.contracts =
                             [a \in DOMAIN @ |-> [@[a] EXCEPT !.storage = r.storage]]],
                  result |-> "Ok", value |-> Some(ContractResult(r))]

ContractExecutor_call(ws, contract_address) ==
    IF contract_address \notin DOMAIN ws.contracts
    THEN [ws |-> ws, result |-> "ContractError", value |-> None]
    ELSE LET contract == ws.contracts[contract_address]
             r == execute(with_storage(VM_new, contract.storage), contract.bytecode)
         IN IF r.result # Some("Ok")
            THEN [ws |-> ws, result |-> r.result[1], value |-> None]
            ELSE [ws |-> [ws EXCEPT !.contracts[contract_address].storage = r.storage],
                  result |-> "Ok", value |-> Some(ContractResult(r))]

\* Contracts: a counter kept at key 0; one that logs and leaves the value at
\* key 0; one that stores and then pops an empty stack; one that stores in a
\* loop until the step limit.
CounterContract ==
    push_val(0) \o push_val(0) \o <<65>> \o push_val(1) \o <<16, 64>>
LogContract == push_val(0) \o <<65, 3, 80, 63>>
StoreThenUnderflow == push_val(0) \o push_val(2) \o <<64, 2>>
StoreForever == push_val(0) \o push_val(2) \o <<64>> \o push_val(0) \o <<48>>
ContractBytecodes == {CounterContract, LogContract, StoreThenUnderflow, StoreForever}
CallAddresses == {"0xc1", "0xc2"}

ContractInit ==
    /\ chain = <<genesis(0)>>
    /\ pending_transactions = <<>>
    /\ difficulty = 1
    /\ mining_reward = 1
    /\ state = credit(WorldState_new, "alice", 1)
    /\ ret = [op |-> "new", result |-> "Ok"]
    /\ accepted = 0
    /\ NetInit
    /\ TaskInit
    /\ UnitInit

\* ContractExecutor::deploy, the address being the digest of sender, bytecode
\* and clock.
call_deploy(sender, code, address) ==
    /\ address \notin DOMAIN state.contracts
    /\ state' = deploy_contract(state, address, code, sender)
    /\ ret' = [op |-> "deploy", result |-> "Ok", address |-> address]
    /\ UNCHANGED <<chain, pending_transactions, difficulty, mining_reward, accepted>>

call_contract(contract_address) ==
    /\ LET r == ContractExecutor_call(state, contract_address)
       IN /\ state' = r.ws
          /\ ret' = [op |-> "call", result |-> r.result, address |-> contract_address,
                     value |-> r.value]
    /\ UNCHANGED <<chain, pending_transactions, difficulty, mining_reward, accepted>>

ContractNext ==
    \/ \E code \in ContractBytecodes, address \in CallAddresses :
          call_deploy("alice", code, address) /\ UNCHANGED <<netvars, taskvars, unitvars>>
    \/ \E address \in CallAddresses :
          call_contract(address) /\ UNCHANGED <<netvars, taskvars, unitvars>>

ContractSpec == ContractInit /\ [][ContractNext]_vars

\* ------------------------------------------------------------- tasks and channels
\* The tasks of main and what each of them waits for: the API handlers
\* create_transaction and mine_block, the forwarding task, the network task and
\* the event loop, with the three bounded channels and the lock of the
\* blockchain. What an operation does to the blockchain inside the lock is left
\* to the specification of the lock above; messages published to the swarm
\* leave the node.
ChannelTasks == {"api", "forward", "network", "loop"}

PeerConnected(peer) == [type |-> "PeerConnected", peer |-> peer]
PeerDisconnected(peer) == [type |-> "PeerDisconnected", peer |-> peer]

\* What the swarm delivers to the network task.
SwarmEvents ==
    { NewTransaction(SysTx), NewBlock(PeerBlock1), [type |-> "ChainRequest", peer |-> "peer"],
      ChainResponse(PeerOwnChain), PeerConnected("peer"), PeerDisconnected("peer") }

\* The commands the API handlers send.
ApiCommands == {BroadcastTransaction(SysTx), BroadcastBlock(PeerBlock1)}

\* usize::saturating_sub without the test for the smaller value.
saturating_sub_unchecked(count, n) == count - n

\* usize::saturating_sub
saturating_sub(count, n) == IF count < n THEN 0 ELSE count - n

\* PeerConnected events sent or being sent and not yet counted.
RECURSIVE CountType(_, _)
CountType(q, type) ==
    IF q = <<>> THEN 0
    ELSE (IF Head(q).type = type THEN 1 ELSE 0) + CountType(Tail(q), type)

PendingConnected ==
    CountType(net_event_rx, "PeerConnected")
      + (IF tasks["network"].pc = "send" /\ tasks["network"].msg.type = "PeerConnected"
         THEN 1 ELSE 0)

channel_frame == <<chain, pending_transactions, difficulty, mining_reward, state, accepted,
                   gossip, event_loop, sequential, transaction, signed, vm, vm_bytecode>>

ChannelInit ==
    /\ chain = <<genesis(0)>>
    /\ pending_transactions = <<>>
    /\ difficulty = 1
    /\ mining_reward = 1
    /\ state = WorldState_new
    /\ ret = [op |-> "new", result |-> "Ok"]
    /\ accepted = 0
    /\ NetInit
    /\ mutex = "free"
    /\ tasks = [t \in ChannelTasks |-> Idle]
    /\ sequential = [chain |-> chain, pending_transactions |-> <<>>,
                     state |-> WorldState_new]
    /\ UnitInit

\* A request reaches create_transaction or mine_block, which asks for the lock.
api_request(cmd) ==
    /\ tasks["api"] = Idle
    /\ tasks' = [tasks EXCEPT !["api"] = [pc |-> "lock", msg |-> cmd]]
    /\ UNCHANGED <<mutex, net_event_rx, net_cmd_rx, api_cmd_rx, peer_count, ret, channel_frame>>

\* state.blockchain.lock().await of the handler is granted. add_transaction may
\* fail: the handler then returns and drops the guard; otherwise it goes on to
\* send its command with the guard alive.
api_lock(ok) ==
    /\ tasks["api"].pc = "lock"
    /\ mutex = "free"
    /\ tasks["api"].msg.type = "BroadcastBlock" => ok
    /\ mutex' = IF ok THEN "api" ELSE "free"
    /\ tasks' = [tasks EXCEPT !["api"] = IF ok THEN [@ EXCEPT !.pc = "send"] ELSE Idle]
    /\ UNCHANGED <<net_event_rx, net_cmd_rx, api_cmd_rx, peer_count, ret, channel_frame>>

\* tx.send(..).await of the handler; the guard is dropped when the handler returns.
api_send ==
    /\ tasks["api"].pc = "send"
    /\ Len(api_cmd_rx) < ChannelCapacity
    /\ api_cmd_rx' = Append(api_cmd_rx, tasks["api"].msg)
    /\ mutex' = "free"
    /\ tasks' = [tasks EXCEPT !["api"] = Idle]
    /\ UNCHANGED <<net_event_rx, net_cmd_rx, peer_count, ret, channel_frame>>

\* api_cmd_rx.recv().await of the forwarding task.
forward_recv ==
    /\ tasks["forward"] = Idle
    /\ api_cmd_rx # <<>>
    /\ api_cmd_rx' = Tail(api_cmd_rx)
    /\ tasks' = [tasks EXCEPT !["forward"] = [pc |-> "send", msg |-> Head(api_cmd_rx)]]
    /\ UNCHANGED <<mutex, net_event_rx, net_cmd_rx, peer_count, ret, channel_frame>>

\* net_cmd_tx_clone.send(net_cmd).await
forward_send ==
    /\ tasks["forward"].pc = "send"
    /\ Len(net_cmd_rx) < ChannelCapacity
    /\ net_cmd_rx' = Append(net_cmd_rx, tasks["forward"].msg)
    /\ tasks' = [tasks EXCEPT !["forward"] = Idle]
    /\ UNCHANGED <<mutex, net_event_rx, api_cmd_rx, peer_count, ret, channel_frame>>

\* The command branch of the select of NetworkNode::run: handle_command
\* publishes without waiting.
network_command ==
    /\ tasks["network"] = Idle
    /\ net_cmd_rx # <<>>
    /\ net_cmd_rx' = Tail(net_cmd_rx)
    /\ UNCHANGED <<tasks, mutex, net_event_rx, api_cmd_rx, peer_count, ret, channel_frame>>

\* The swarm branch of the select: handle_swarm_event has an event to send.
network_swarm_event(e) ==
    /\ tasks["network"] = Idle
    /\ e.type = "PeerConnected" => peer_count + PendingConnected < MaxPeers
    /\ tasks' = [tasks EXCEPT !["network"] = [pc |-> "send", msg |-> e]]
    /\ UNCHANGED <<mutex, net_event_rx, net_cmd_rx, api_cmd_rx, peer_count, ret, channel_frame>>

\* self.event_tx.send(ev).await inside handle_swarm_event.
network_send ==
    /\ tasks["network"].pc = "send"
    /\ Len(net_event_rx) < ChannelCapacity
    /\ net_event_rx' = Append(net_event_rx, tasks["network"].msg)
    /\ tasks' = [tasks EXCEPT !["network"] = Idle]
    /\ UNCHANGED <<mutex, net_cmd_rx, api_cmd_rx, peer_count, ret, channel_frame>>

\* net_event_rx.recv().await of the event loop and the start of the arm: the
\* peer arms count at once, the NewBlock arm goes to send RequestChain, the
\* other arms ask for the lock.
loop_recv ==
    /\ tasks["loop"] = Idle
    /\ net_event_rx # <<>>
    /\ net_event_rx' = Tail(net_event_rx)
    /\ LET event == Head(net_event_rx)
       IN /\ tasks' = [tasks EXCEPT !["loop"] =
                          IF event.type \in {"PeerConnected", "PeerDisconnected"} THEN Idle
                          ELSE IF event.type = "NewBlock"
                          THEN [pc |-> "send", msg |-> NewBlock_command]
                          ELSE [pc |-> "lock", msg |-> event]]
          /\ peer_count' = IF event.type = "PeerConnected" THEN peer_count + 1
                           ELSE IF event.type = "PeerDisconnected"
                           THEN saturating_sub(peer_count, 1)
                           ELSE peer_count
          /\ ret' = [op |-> event.type, result |-> "Ok", value |-> peer_count]
    /\ UNCHANGED <<mutex, net_cmd_rx, api_cmd_rx, channel_frame>>

\* shared_blockchain.lock().await of the event loop is granted. The
\* NewTransaction and ChainResponse arms end with the operation; the
\* ChainRequest arm goes on to send with the guard alive.
loop_lock ==
    /\ tasks["loop"].pc = "lock"
    /\ mutex = "free"
    /\ IF tasks["loop"].msg.type = "ChainRequest"
       THEN /\ mutex' = "loop"
            /\ tasks' = [tasks EXCEPT !["loop"] =
                            [pc |-> "send", msg |-> ChainRequest_command(chain)]]
       ELSE /\ mutex' = "free"
            /\ tasks' = [tasks EXCEPT !["loop"] = Idle]
    /\ UNCHANGED <<net_event_rx, net_cmd_rx, api_cmd_rx, peer_count, ret, channel_frame>>

\* net_cmd_tx.send(..).await of the event loop; the guard of the ChainRequest arm
\* is dropped at the end of the arm.
loop_send ==
    /\ tasks["loop"].pc = "send"
    /\ Len(net_cmd_rx) < ChannelCapacity
    /\ net_cmd_rx' = Append(net_cmd_rx, tasks["loop"].msg)
    /\ mutex' = IF mutex = "loop" THEN "free" ELSE mutex
    /\ tasks' = [tasks EXCEPT !["loop"] = Idle]
    /\ UNCHANGED <<net_event_rx, api_cmd_rx, peer_count, ret, channel_frame>>

ChannelNext ==
    \/ \E cmd \in ApiCommands : api_request(cmd)
    \/ \E ok \in BOOLEAN : api_lock(ok)
    \/ api_send
    \/ forward_recv
    \/ forward_send
    \/ network_command
    \/ \E e \in SwarmEvents : network_swarm_event(e)
    \/ network_send
    \/ loop_recv
    \/ loop_lock
    \/ loop_send

ChannelSpec == ChannelInit /\ [][ChannelNext]_vars

\* The network task and the event loop alone, no request reaching the API.
EventLoopNext ==
    \/ network_command
    \/ \E e \in SwarmEvents : network_swarm_event(e)
    \/ network_send
    \/ loop_recv
    \/ loop_lock
    \/ loop_send

EventLoopSpec == ChannelInit /\ [][EventLoopNext]_vars

\* ------------------------------------------------------------- replay, as specified
\* Balance and nonce of an address in an accounts map (0 when absent).
Bal(m, a) == IF a \in DOMAIN m THEN m[a].balance ELSE 0
Non(m, a) == IF a \in DOMAIN m THEN m[a].nonce ELSE 0

\* The accounts map after one transaction of a block, stated as one simultaneous
\* update: only a Transfer counts; "system" issues amount to the recipient; another
\* sender pays amount to the recipient when it holds at least amount.
Replayed(m, tx) ==
    IF tx.tx_type # "Transfer" THEN m
    ELSE IF tx.sender = "system"
    THEN [a \in (DOMAIN m) \cup {tx.recipient} |->
            [balance |-> IF a = tx.recipient THEN (Bal(m, a) + tx.amount) % U64Modulus
                         ELSE Bal(m, a),
             nonce |-> Non(m, a)]]
    ELSE IF Bal(m, tx.sender) < tx.amount THEN m
    ELSE [a \in (DOMAIN m) \cup {tx.sender, tx.recipient} |->
            [balance |-> (Bal(m, a) - (IF a = tx.sender THEN tx.amount ELSE 0)
                            + (IF a = tx.recipient THEN tx.amount ELSE 0)) % U64Modulus,
             nonce |-> IF a = tx.sender THEN (Non(m, a) + 1) % U64Modulus ELSE Non(m, a)]]

RECURSIVE ReplayedSeq(_, _)
ReplayedSeq(m, txs) ==
    IF txs = <<>> THEN m ELSE ReplayedSeq(Replayed(m, Head(txs)), Tail(txs))

\* All transactions of a chain, block by block.
RECURSIVE AllTransactions(_)
AllTransactions(c) ==
    IF c = <<>> THEN <<>> ELSE Head(c).transactions \o AllTransactions(Tail(c))

ReplayOf(c) == ReplayedSeq(EmptyMap, AllTransactions(c))

\* Every non-genesis block of c is valid and links to the block before it.
LinkedAndValid(c) ==
    \A i \in 2..Len(c) : is_valid(c[i]) /\ c[i].header.previous_hash = c[i - 1].hash

\* ------------------------------------------------------------- claims
\* C1: in every reachable state every non-genesis block of the chain is valid and
\* carries the hash of the block before it, so is_chain_valid() returns true.
C1_ChainAlwaysValid ==
    /\ \A i \in 2..Len(chain) :
          /\ is_valid(chain[i])
          /\ chain[i].header.previous_hash = chain[i - 1].hash
    /\ is_chain_valid(chain)

\* A block mined by the node on top of a block adopted from a peer.
C1_Witness ==
    /\ Len(chain) >= 3
    /\ ret.op = "mine_pending"
    /\ chain[2] = PeerBlock1

C9_MinedBlockMeetsTarget ==
    ret.op = "mine_pending" =>
        /\ ret.value.header.difficulty = difficulty
        /\ ret.value.hash = calculate_hash(ret.value.header)
        /\ ret.value.hash.d < Pow(DigitBase, HashDigits - difficulty)

\* A block for which the nonce search had to step past nonce 0.
C9_Witness ==
    /\ ret.op = "mine_pending"
    /\ ret.value.header.nonce > 0
    /\ ret.value.header.difficulty = HashDigits

\* C2: replace_chain(c) returns Ok exactly when c is strictly longer than the
\* current chain and every non-genesis block of c is valid and linked; otherwise
\* it returns an error.
C2_ReplaceOkIffLongerAndValid ==
    [][ret'.op = "replace_chain" =>
          \A c \in CandidateChains(chain) :
              replace_chain(c) =>
                  /\ ret'.result \in {"Ok", "InvalidChain"}
                  /\ ret'.result = "Ok" <=> (Len(c) > Len(chain) /\ LinkedAndValid(c))]_vars

\* A peer chain replaced a chain the node had already mined on.
C2_Witness ==
    /\ ret.op = "replace_chain"
    /\ ret.result = "Ok"
    /\ Len(chain) >= 3

\* C3: a successful replace_chain(c) makes the chain c, makes the accounts the
\* replay of c from empty, and leaves no contract.
C3_ReplaceRebuildsState ==
    [][(ret'.op = "replace_chain" /\ ret'.result = "Ok") =>
          \A c \in CandidateChains(chain) :
              replace_chain(c) =>
                  /\ chain' = c
                  /\ state'.accounts = ReplayOf(c)
                  /\ DOMAIN state'.contracts = {}]_vars

\* The adopted chain holds a credit, a transfer and a skipped transfer, and a
\* contract deployed before the call is gone.
C3_Witness ==
    /\ ret.op = "replace_chain"
    /\ ret.result = "Ok"
    /\ ret.contracts_before # {}
    /\ chain[2] = PeerBlock1
    /\ Bal(state.accounts, "bob") = 1
    /\ DOMAIN state.contracts = {}

\* C4: a rejected replace_chain(c) returns InvalidChain and leaves the chain, the
\* world state and the mempool as they were.
C4_RejectedReplaceChangesNothing ==
    [][ret'.op = "replace_chain" =>
          \A c \in CandidateChains(chain) :
              (~(Len(c) > Len(chain) /\ LinkedAndValid(c)) /\ replace_chain(c)) =>
                  /\ ret'.result = "InvalidChain"
                  /\ chain' = chain
                  /\ state' = state
                  /\ pending_transactions' = pending_transactions]_vars

\* A rejection in a state with a mined block, a contract and a pending transaction.
C4_Witness ==
    /\ ret.op = "replace_chain"
    /\ ret.result = "InvalidChain"
    /\ ret.contracts_before # {}
    /\ DOMAIN state.contracts # {}
    /\ pending_transactions # <<>>
    /\ Len(chain) >= 2

\* The admission rule of add_transaction.
Admissible(ws, tx) ==
    \/ tx.sender = "system"
    \/ /\ verify(tx) = "Ok"
       /\ tx.tx_type # "Transfer" \/ Bal(ws.accounts, tx.sender) >= tx.amount

\* C6: add_transaction(tx) returns Ok and appends tx to the mempool exactly when
\* tx is admissible.
C6_AddOkIffAdmissible ==
    [][ret'.op = "add_transaction" =>
          \A tx \in TxInputs :
              add_transaction(tx) =>
                  ((ret'.result = "Ok"
                      /\ pending_transactions' = Append(pending_transactions, tx))
                    <=> Admissible(state, tx))]_vars

\* A signed ContractCall whose amount exceeds the sender's balance was accepted
\* behind a signed transfer.
C6_Witness ==
    /\ ret.op = "add_transaction"
    /\ ret.result = "Ok"
    /\ pending_transactions = <<SignedTransfer, SignedCall>>
    /\ Bal(state.accounts, "alice") < SignedCall.amount

\* C7: a rejected add_transaction returns InvalidSignature when verify() fails and
\* InsufficientBalance when a verified non-system Transfer exceeds the sender's
\* balance, and leaves the mempool, the chain and the world state as they were.
C7_RejectedAddChangesNothing ==
    [][ret'.op = "add_transaction" =>
          \A tx \in TxInputs :
              (add_transaction(tx) /\ tx.sender # "system") =>
                  /\ verify(tx) # "Ok" =>
                        /\ ret'.result = "InvalidSignature"
                        /\ UNCHANGED <<pending_transactions, chain, state>>
                  /\ (verify(tx) = "Ok" /\ tx.tx_type = "Transfer"
                        /\ Bal(state.accounts, tx.sender) < tx.amount) =>
                        /\ ret'.result = "InsufficientBalance"
                        /\ UNCHANGED <<pending_transactions, chain, state>>]_vars

\* A signed transfer was refused for lack of balance while another transaction
\* was pending.
C7_Witness ==
    /\ ret.op = "add_transaction"
    /\ ret.result = "InsufficientBalance"
    /\ pending_transactions # <<>>

\* C8: mine_pending(miner) appends one block whose index is the old chain length
\* and whose previous_hash is the old last hash; its transactions are the mempool
\* in order followed by a Transfer of mining_reward from "system" to miner; the
\* mempool is empty afterwards.
C8_MineAppendsOneBlock ==
    [][\A miner \in Miners, t1 \in Times, t2 \in Times :
          (ret'.op = "mine_pending" /\ t1 <= t2 /\ mine_pending(miner, t1, t2)) =>
              LET b == chain'[Len(chain')]
                  n == Len(pending_transactions)
              IN /\ Len(chain') = Len(chain) + 1
                 /\ SubSeq(chain', 1, Len(chain)) = chain
                 /\ ret'.value = b
                 /\ b.header.index = Len(chain)
                 /\ b.header.previous_hash = chain[Len(chain)].hash
                 /\ Len(b.transactions) = n + 1
                 /\ SubSeq(b.transactions, 1, n) = pending_transactions
                 /\ b.transactions[n + 1].sender = "system"
                 /\ b.transactions[n + 1].recipient = miner
                 /\ b.transactions[n + 1].amount = mining_reward
                 /\ b.transactions[n + 1].tx_type = "Transfer"
                 /\ pending_transactions' = <<>>]_vars

\* A block mined from a mempool of two different transactions.
C8_Witness ==
    /\ ret.op = "mine_pending"
    /\ pending_transactions = <<>>
    /\ Len(ret.value.transactions) = 3
    /\ ret.value.transactions[1] = SysTx
    /\ ret.value.transactions[2] = SignedCall
    /\ ret.value.transactions[3].recipient = "alice"

RECURSIVE SumOver(_, _)
SumOver(m, D) ==
    IF D = {} THEN 0
    ELSE LET a == CHOOSE x \in D : TRUE
         IN m[a].balance + SumOver(m, D \ {a})

SumBalances(ws) == SumOver(ws.accounts, DOMAIN ws.accounts)

\* C11: WorldState::transfer, accepted or refused and also from an account to
\* itself, leaves the sum of all balances unchanged, and WorldState::credit
\* raises the sum by exactly amount.
C11_TransferConservesCreditAdds ==
    [][/\ ret'.op = "transfer" => SumBalances(state') = SumBalances(state)
       /\ ret'.op = "credit" =>
             \A a \in Addresses, n \in Amounts :
                 call_credit(a, n) => SumBalances(state') = SumBalances(state) + n]_vars

\* C12: in every reachable state the chain is non-empty and its first block is a
\* genesis block: index 0, previous_hash of zeros, no transactions, difficulty 1.
C12_ChainStartsWithGenesis ==
    /\ Len(chain) >= 1
    /\ chain[1].header.index = 0
    /\ chain[1].header.previous_hash = ZeroString
    /\ chain[1].transactions = <<>>
    /\ chain[1].header.difficulty = 1

\* C13: when the node receives a NewBlock event from a peer whose chain is valid
\* and strictly longer than its own, and every message is eventually delivered,
\* the node eventually replaces its chain with the chain of the peer.
C13_NewBlockLeadsToAdoption ==
    (/\ net_event_rx # <<>>
     /\ Head(net_event_rx) = NewBlock(latest_block(PeerOwnChain))
     /\ is_chain_valid(PeerOwnChain)
     /\ Len(PeerOwnChain) > Len(chain))
        ~> (chain = PeerOwnChain)

\* C14: on a ChainRequest event the node sends its whole current chain, from the
\* genesis block to the latest block, as a ChainResponse.
C14_ChainRequestSendsWholeChain ==
    [][ret'.op = "ChainRequest" =>
          /\ Len(net_cmd_rx') = Len(net_cmd_rx) + 1
          /\ net_cmd_rx'[Len(net_cmd_rx')] = ChainResponse(chain)]_vars

\* The event loop takes the event at the head of its channel.
TakesEvent(type) ==
    /\ net_event_rx # <<>>
    /\ Head(net_event_rx).type = type
    /\ net_event_rx' = Tail(net_event_rx)

\* C16: when add_transaction fails on a NewTransaction event, or replace_chain
\* fails on a ChainResponse event, the chain, the mempool and the world state
\* are unchanged, the event loop keeps running and the events behind the failed
\* one stay in the channel to be processed.
C16_FailedEventOnlyLogged ==
    [][((TakesEvent("NewTransaction") \/ TakesEvent("ChainResponse")) /\ ret'.result # "Ok") =>
          /\ ret'.op = IF Head(net_event_rx).type = "NewTransaction"
                       THEN "add_transaction" ELSE "replace_chain"
          /\ chain' = chain
          /\ pending_transactions' = pending_transactions
          /\ state' = state
          /\ event_loop' = "running"
          /\ net_cmd_rx' = net_cmd_rx]_vars

\* A chain was rejected while a transaction was pending and another event was
\* waiting behind it.
C16_Witness ==
    /\ ret.op = "replace_chain"
    /\ ret.result = "InvalidChain"
    /\ event_loop = "running"
    /\ pending_transactions # <<>>
    /\ net_event_rx # <<>>
    /\ Head(net_event_rx).type = "NewTransaction"

\* C17: on a NewBlock event the node sends exactly one RequestChain command and
\* leaves its chain, its mempool and its world state as they were.
C17_NewBlockOnlyRequestsChain ==
    [][TakesEvent("NewBlock") =>
          /\ net_cmd_rx' = Append(net_cmd_rx, RequestChain)
          /\ chain' = chain
          /\ pending_transactions' = pending_transactions
          /\ state' = state]_vars

\* Two NewBlock events were handled: two requests are queued and the chain is
\* still the genesis block alone.
C17_Witness ==
    /\ ret.op = "NewBlock"
    /\ net_cmd_rx = <<RequestChain, RequestChain>>
    /\ Len(chain) = 1

\* C15: every operation runs entirely inside the locked region of the one mutex:
\* no two tasks are inside an operation at once, and whenever the mutex is free
\* the chain, the mempool and the world state are those produced by running the
\* same operations one after the other, in the order the lock was granted.
C15_OperationsAreSequential ==
    /\ \A t \in Tasks : tasks[t] # Idle => mutex = t
    /\ mutex = "free" =>
          /\ chain = sequential.chain
          /\ pending_transactions = sequential.pending_transactions
          /\ state = sequential.state

\* The event loop adopted a chain and an API task mined an accepted transaction
\* on top of it.
C15_Witness ==
    /\ mutex = "free"
    /\ ret.op = "mine_pending"
    /\ Len(chain) = 3
    /\ chain[2] = PeerBlock1
    /\ Len(chain[3].transactions) = 2

\* The blocks of the chain stay where they are, unchanged.
BlocksKept ==
    \A i \in 1..Len(chain) : Len(chain') >= i /\ chain'[i] = chain[i]

\* Every transaction of the mempool stays in the mempool or is in a block.
PendingKept ==
    \A i \in 1..Len(pending_transactions) :
        \/ \E j \in 1..Len(pending_transactions') :
              pending_transactions'[j] = pending_transactions[i]
        \/ \E b \in 1..Len(chain') : \E j \in 1..Len(chain'[b].transactions) :
              chain'[b].transactions[j] = pending_transactions[i]

C19_SignedVerifiesTamperedFails ==
    (ret.op = "verify" /\ signed # None
        /\ transaction.signature = signed[1].signature
        /\ transaction.public_key = signed[1].public_key)
    => IF SignedFields(transaction) = SignedFields(signed[1])
       THEN ret.result = "Ok"
       ELSE ret.result = "InvalidSignature"

\* C19 for the changes that leave the sender other than "system".
C19_TamperedFailsUnlessSystem ==
    (ret.op = "verify" /\ signed # None /\ transaction.sender # "system"
        /\ SignedFields(transaction) # SignedFields(signed[1]))
    => ret.result = "InvalidSignature"

\* execute has returned (a panic of the division ends it as well).
Returned == vm[1].result # None

\* The loop is about to run its body with the step limit used up.
NeedsMoreSteps ==
    vm[1].result = None /\ vm[1].pc < Len(vm_bytecode) /\ vm[1].steps >= MAX_STEPS

\* C20: VM::execute terminates on every bytecode; an execution that would need
\* more than MAX_STEPS steps fails with GasLimitExceeded; every successful result
\* has steps_used <= MAX_STEPS and equal to the number of instructions executed.
C20_ExecuteTerminatesWithinGas ==
    /\ <>Returned
    /\ [][NeedsMoreSteps => vm'[1].result = Some("GasLimitExceeded")]_vars
    /\ [](vm[1].result = Some("GasLimitExceeded") => vm[1].executed = MAX_STEPS)
    /\ [](vm[1].result = Some("Ok")
            => vm[1].steps <= MAX_STEPS /\ vm[1].steps = vm[1].executed)

\* A bytecode that loops was stopped at the step limit.
C20_Witness ==
    /\ vm # None
    /\ vm[1].result = Some("GasLimitExceeded")
    /\ vm[1].steps = MAX_STEPS
    /\ vm[1].executed = MAX_STEPS

\* The variants of VmError that execute constructs.
VmErrors ==
    {"StackOverflow", "StackUnderflow", "GasLimitExceeded", "InvalidOpcode",
     "DivisionByZero", "InvalidJump", "PcOutOfBounds"}

\* The opcode the next pass of the loop dispatches, "None" when there is none.
NextOpcode ==
    IF vm[1].result = None /\ vm[1].pc < Len(vm_bytecode) /\ vm[1].steps < MAX_STEPS
    THEN OpCode_from_byte(vm_bytecode[vm[1].pc + 1])
    ELSE "None"

Depth == Len(vm[1].stack)

\* C21: execute returns an ExecutionResult or a VmError and never aborts, and
\* DIV and MOD with a non-zero divisor push a result for every pair of operands,
\* a = i64::MIN with b = -1 included.
C21_ExecuteNeverAborts ==
    /\ [](Returned => vm[1].result[1] \in {"Ok"} \cup VmErrors)
    /\ [][(NextOpcode \in {"Div", "Mod"} /\ Depth >= 2 /\ peek(vm[1]) # 0)
            => (vm'[1].result = None /\ Len(vm'[1].stack) = Depth - 1)]_vars

\* What a fresh VM seeded with the storage saved for the contract at address
\* makes of its bytecode, in the world state ws.
FreshRun(ws, address) ==
    execute([stack |-> <<>>, pc |-> 0, storage |-> ws.contracts[address].storage,
             logs |-> <<>>, steps |-> 0, executed |-> 0, result |-> None],
            ws.contracts[address].bytecode)

\* C22: a successful call ran the bytecode of the contract in a fresh VM seeded
\* with the storage saved for it, overwrote the saved storage with the final
\* storage of the VM and nothing else, and returned the last stack element (None
\* for an empty stack), the logs in order and the steps used.
C22_CallRunsSeededAndSavesStorage ==
    [][(ret'.op = "call" /\ ret'.result = "Ok") =>
        LET a == ret'.address
            r == FreshRun(state, a)
        IN /\ a \in DOMAIN state.contracts
           /\ r.result = Some("Ok")
           /\ state'.contracts[a].storage = r.storage
           /\ state' = [state EXCEPT !.contracts[a].storage = r.storage]
           /\ ret'.value[1].stack_top =
                 (IF r.stack = <<>> THEN None ELSE Some(r.stack[Len(r.stack)]))
           /\ ret'.value[1].logs = r.logs
           /\ ret'.value[1].steps_used = r.steps]_vars

\* The counter contract was called a second time and counted from the storage
\* the first call left.
C22_Witness ==
    /\ ret.op = "call" /\ ret.result = "Ok" /\ ret.address = "0xc1"
    /\ state.contracts["0xc1"].bytecode = CounterContract
    /\ state.contracts["0xc1"].storage = Put(EmptyMap, 0, 2)
    /\ ret.value[1].stack_top = None

\* C23: a call that fails returns the error, ContractError when the address names
\* no contract, and leaves the world state, the saved storage of the contract
\* included, as it was, also when STORE instructions ran before the failure.
C23_FailedCallLeavesStateUnchanged ==
    [][(ret'.op = "call" /\ ret'.result # "Ok") =>
        /\ state' = state
        /\ ret'.value = None
        /\ IF ret'.address \in DOMAIN state.contracts
           THEN ret'.result \in VmErrors
           ELSE ret'.result = "ContractError"]_vars

\* A contract failed after its STORE and its saved storage is still empty.
C23_Witness ==
    /\ ret.op = "call" /\ ret.result = "StackUnderflow"
    /\ state.contracts[ret.address].bytecode = StoreThenUnderflow
    /\ state.contracts[ret.address].storage = EmptyMap

\* The stack before the step, the element k places below its top, and the
\* stack without its top k elements.
FromTop(k) == vm[1].stack[Depth - k]
Below(k) == SubSeq(vm[1].stack, 1, Depth - k)

\* r is the i64 that equals the integer exact modulo 2^64.
IsWrapped(r, exact) ==
    /\ r >= I64Min /\ r < 0 - I64Min
    /\ (r - exact) % I64Modulus = 0

Arith(opcode, a, b) ==
    CASE opcode = "Add" -> a + b [] opcode = "Sub" -> a - b [] opcode = "Mul" -> a * b

\* C24: ADD, SUB and MUL pop b then a and push the wrapping result of a op b, for
\* all a and b; PUSH a; PUSH b; ADD; HALT ends with the stack [a + b wrapped].
C24_ArithmeticWraps ==
    /\ [][(NextOpcode \in {"Add", "Sub", "Mul"} /\ Depth >= 2) =>
            /\ vm'[1].result = None
            /\ Len(vm'[1].stack) = Depth - 1
            /\ SubSeq(vm'[1].stack, 1, Depth - 2) = Below(2)
            /\ IsWrapped(vm'[1].stack[Depth - 1],
                         Arith(NextOpcode, FromTop(1), FromTop(0)))]_vars
    /\ [](\A a \in OperandValues, b \in OperandValues :
            (vm_bytecode = push_val(a) \o push_val(b) \o <<16, 63>> /\ Returned) =>
                /\ vm[1].result = Some("Ok")
                /\ Len(vm[1].stack) = 1
                /\ IsWrapped(vm[1].stack[1], a + b))

\* i64::MIN + (-1) wrapped to i64::MAX.
C24_Witness ==
    /\ vm # None
    /\ vm_bytecode = push_val(I64Min) \o push_val(0 - 1) \o <<16, 63>>
    /\ vm[1].result = Some("Ok")
    /\ vm[1].stack = <<0 - I64Min - 1>>

\* C25: DIV or MOD executed with 0 on top of the stack fails with
\* DivisionByZero, whatever the second operand is.
C25_DivisionByZeroFails ==
    [][(NextOpcode \in {"Div", "Mod"} /\ Depth >= 2 /\ FromTop(0) = 0)
        => vm'[1].result = Some("DivisionByZero")]_vars

\* i64::MIN % 0 failed with DivisionByZero.
C25_Witness ==
    /\ vm # None
    /\ vm_bytecode = push_val(I64Min) \o push_val(0) \o <<20>>
    /\ vm[1].result = Some("DivisionByZero")

\* The value storage holds at a key as LOAD sees it.
Stored(storage, key) == IF key \in DOMAIN storage THEN storage[key] ELSE 0

\* C26: STORE pops value then key and sets storage[key] = value, no other
\* instruction changes the storage, and LOAD pops key and pushes the value
\* stored at it, 0 when there is none; so a LOAD after a STORE of the same key,
\* in the same execution or a seeded one, pushes the value stored last.
C26_StoreThenLoad ==
    /\ [][/\ (NextOpcode = "Store" /\ Depth >= 2) =>
               /\ vm'[1].result = None
               /\ vm'[1].stack = Below(2)
               /\ Stored(vm'[1].storage, FromTop(1) % I64Modulus) = FromTop(0)
               /\ DOMAIN vm'[1].storage = DOMAIN vm[1].storage \cup {FromTop(1) % I64Modulus}
               /\ \A k \in DOMAIN vm[1].storage :
                     k # FromTop(1) % I64Modulus => vm'[1].storage[k] = vm[1].storage[k]
          /\ (NextOpcode = "Load" /\ Depth >= 1) =>
               /\ vm'[1].result = None
               /\ vm'[1].stack = Append(Below(1), Stored(vm[1].storage, FromTop(0) % I64Modulus))
          /\ (vm # None /\ NextOpcode # "Store") => vm'[1].storage = vm[1].storage]_vars
    /\ [](\A key \in {0 - 1, 0}, key2 \in {0 - 1, 0}, value \in {0, 2} :
            (/\ vm_bytecode = push_val(key) \o push_val(value) \o <<64>>
                                  \o push_val(key2) \o <<65>>
             /\ Returned /\ key = key2)
            => vm[1].result = Some("Ok") /\ vm[1].stack = <<value>>)

\* A VM seeded with a value at key 0 stored 2 there and loaded 2.
C26_Witness ==
    /\ vm # None
    /\ vm_bytecode = push_val(0) \o push_val(2) \o <<64>> \o push_val(0) \o <<65>>
    /\ vm[1].result = Some("Ok")
    /\ vm[1].stack = <<2>>
    /\ vm[1].storage = Put(EmptyMap, 0, 2)

\* How many elements the arm of an opcode takes from the stack before it pushes.
Pops(opcode) ==
    CASE opcode \in {"Push", "Halt", "None"} -> 0
      [] opcode \in {"Pop", "Dup", "Not", "Jump", "Load", "Log"} -> 1
      [] OTHER -> 2

\* C27: the stack depth stays between 0 and MAX_STACK_SIZE; an instruction that
\* would push onto a full stack fails with StackOverflow, and one that pops or
\* peeks an empty stack fails with StackUnderflow.
C27_StackDepthBounded ==
    /\ [](Depth >= 0 /\ Depth <= MAX_STACK_SIZE)
    /\ [][/\ (NextOpcode # "None" /\ Depth < Pops(NextOpcode))
               => vm'[1].result = Some("StackUnderflow")
          /\ (/\ Depth = MAX_STACK_SIZE
              /\ \/ NextOpcode = "Dup"
                 \/ NextOpcode = "Push" /\ vm[1].pc + 1 + OPERAND_BYTES <= Len(vm_bytecode))
               => vm'[1].result = Some("StackOverflow")]_vars

\* A push onto a full stack failed.
C27_Witness ==
    /\ vm # None
    /\ vm[1].result = Some("StackOverflow")
    /\ Depth = MAX_STACK_SIZE

\* The outcome of a jump to target from a stack of which k elements were popped.
Jumped(target, k) ==
    IF target < 0 \/ target >= Len(vm_bytecode)
    THEN vm'[1].result = Some("InvalidJump")
    ELSE vm'[1].result = None /\ vm'[1].pc = target /\ vm'[1].stack = Below(k)

\* C28: JUMP pops target, fails with InvalidJump when target >= len(bytecode) or
\* target is negative, and continues at pc = target otherwise; JUMPIF pops target
\* then condition, jumps in the same way when condition # 0 and otherwise goes on
\* to the next instruction without a test of target.
C28_JumpTargets ==
    [][/\ (NextOpcode = "Jump" /\ Depth >= 1) => Jumped(FromTop(0), 1)
       /\ (NextOpcode = "JumpIf" /\ Depth >= 2) =>
            IF FromTop(1) # 0 THEN Jumped(FromTop(0), 2)
            ELSE /\ vm'[1].result = None
                 /\ vm'[1].pc = vm[1].pc + 1
                 /\ vm'[1].stack = Below(2)]_vars

\* A JUMPIF with condition 0 and target len(bytecode) fell through to the HALT.
C28_Witness ==
    /\ vm # None
    /\ vm_bytecode = push_val(0) \o push_val(2 * (1 + OPERAND_BYTES) + 2) \o <<49, 63>>
    /\ vm[1].result = Some("Ok")
    /\ vm[1].pc = 2 * (1 + OPERAND_BYTES) + 1

\* execute is running and its loop has not used up the steps.
Dispatching ==
    vm[1].result = None /\ vm[1].pc < Len(vm_bytecode) /\ vm[1].steps < MAX_STEPS

\* C29: pc never exceeds len(bytecode); an instruction that does not jump moves
\* pc on by 1, PUSH by 1 + OPERAND_BYTES, failing with PcOutOfBounds when fewer
\* than OPERAND_BYTES bytes follow the opcode; a byte that is no opcode fails with
\* InvalidOpcode; execute ends with Ok exactly on HALT or at pc = len(bytecode).
C29_PcWithinBytecode ==
    /\ [](vm[1].pc <= Len(vm_bytecode))
    /\ [][/\ (NextOpcode = "Push") =>
               IF vm[1].pc + 1 + OPERAND_BYTES > Len(vm_bytecode)
               THEN vm'[1].result = Some("PcOutOfBounds")
               ELSE vm'[1].result = None => vm'[1].pc = vm[1].pc + 1 + OPERAND_BYTES
          /\ (Dispatching /\ NextOpcode = "None") => vm'[1].result = Some("InvalidOpcode")
          /\ (NextOpcode \notin {"None", "Push", "Jump", "JumpIf", "Halt"}
                /\ vm'[1].result = None) => vm'[1].pc = vm[1].pc + 1
          /\ (vm # None /\ vm[1].result = None) =>
               ((vm'[1].result = Some("Ok"))
                  <=> (NextOpcode = "Halt" \/ vm[1].pc = Len(vm_bytecode)))]_vars

\* A PUSH whose operand ends the bytecode left pc at len(bytecode) and execute
\* ended there.
C29_Witness ==
    /\ vm # None
    /\ vm_bytecode = push_val(1)
    /\ vm[1].result = Some("Ok")
    /\ vm[1].pc = Len(vm_bytecode)

\* C30: debit succeeds exactly when the balance is at least amount and then
\* lowers the balance by amount and raises the nonce by 1 (the nonce of the model
\* is looked at below its width; the one of the code takes 2^64 debits to wrap);
\* no balance is negative; credit creates an absent account with balance 0 and
\* nonce 0 and then raises the balance by amount.
C30_DebitCheckedCreditAdds ==
    /\ [](\A a \in DOMAIN state.accounts : state.accounts[a].balance >= 0)
    /\ [][/\ ret'.op = "debit" =>
               \A a \in Addresses, n \in Amounts :
                   call_debit(a, n) =>
                       /\ ret'.result = (Bal(state.accounts, a) >= n)
                       /\ ret'.result =>
                            /\ Bal(state'.accounts, a) = Bal(state.accounts, a) - n
                            /\ Non(state.accounts, a) < U64Modulus - 1 =>
                                  Non(state'.accounts, a) = Non(state.accounts, a) + 1
          /\ ret'.op = "credit" =>
               \A a \in Addresses, n \in Amounts :
                   call_credit(a, n) =>
                       /\ a \in DOMAIN state'.accounts
                       /\ Non(state'.accounts, a) = Non(state.accounts, a)
                       /\ Bal(state'.accounts, a) = Bal(state.accounts, a) + n]_vars

\* C30 with the sum of credit taken as the u64 sum.
C30_DebitCheckedCreditAddsWrapping ==
    /\ [](\A a \in DOMAIN state.accounts : state.accounts[a].balance >= 0)
    /\ [][/\ ret'.op = "debit" =>
               \A a \in Addresses, n \in Amounts :
                   call_debit(a, n) =>
                       /\ ret'.result = (Bal(state.accounts, a) >= n)
                       /\ ret'.result =>
                            /\ Bal(state'.accounts, a) = Bal(state.accounts, a) - n
                            /\ Non(state.accounts, a) < U64Modulus - 1 =>
                                  Non(state'.accounts, a) = Non(state.accounts, a) + 1
          /\ ret'.op = "credit" =>
               \A a \in Addresses, n \in Amounts :
                   call_credit(a, n) =>
                       /\ a \in DOMAIN state'.accounts
                       /\ Non(state'.accounts, a) = Non(state.accounts, a)
                       /\ Bal(state'.accounts, a) = (Bal(state.accounts, a) + n) % U64Modulus]_vars

\* C31: Block::mine changes only header.nonce and hash (index, timestamp,
\* previous_hash, merkle_root, difficulty and the transactions stay as built); the
\* nonce it stops at is the first one, counting up from 0, whose header hash
\* begins with difficulty '0' characters; mining the mined block again changes
\* nothing.
C31_MineChangesOnlyNonceAndHash ==
    [][\A miner \in Miners, t1 \in Times, t2 \in Times :
          (ret'.op = "mine_pending" /\ t1 <= t2 /\ mine_pending(miner, t1, t2)) =>
              LET reward_tx == new_transfer(100 + height(chain), "system", miner,
                                            mining_reward, t1)
                  built == BlockNew(height(chain), latest_block(chain).hash,
                                    Append(pending_transactions, reward_tx), difficulty, t2)
                  b == ret'.value
                  at(n) == calculate_hash([built.header EXCEPT !.nonce = n])
              IN /\ built.header.nonce = 0
                 /\ b.header = [built.header EXCEPT !.nonce = b.header.nonce]
                 /\ b.transactions = built.transactions
                 /\ b.hash = at(b.header.nonce)
                 /\ starts_with_zeros(b.hash, difficulty)
                 /\ \A n \in 0..(b.header.nonce - 1) : ~starts_with_zeros(at(n), difficulty)
                 /\ mine(b) = b]_vars

\* A block of two transactions whose search passed over at least one nonce.
C31_Witness ==
    /\ ret.op = "mine_pending"
    /\ ret.value.header.nonce > 0
    /\ Len(ret.value.transactions) = 2
    /\ chain[Len(chain)] = ret.value

\* The blocks that differ from b in one field of the header.
HeaderChanges(b) ==
    {[b EXCEPT !.header.nonce = n] : n \in (0..(b.header.nonce + 1)) \ {b.header.nonce}}
    \cup {[b EXCEPT !.header.difficulty = d] : d \in (0..HashDigits) \ {b.header.difficulty}}
    \cup {[b EXCEPT !.header.index = i] : i \in (0..MaxChainLen) \ {b.header.index}}
    \cup {[b EXCEPT !.header.timestamp = t] : t \in (0..1) \ {b.header.timestamp}}
    \cup {[b EXCEPT !.header.previous_hash = h] :
              h \in {ZeroString, b.hash, genesis(0).hash} \ {b.header.previous_hash}}
    \cup {[b EXCEPT !.header.merkle_root = h] :
              h \in {MerkleRoot(<<>>), MerkleRoot(<<SysTx>>)} \ {b.header.merkle_root}}

\* is_valid() of b is what the two tests give, and each change of one header
\* field of a valid b makes it false.
DetectsHeaderChange(b) ==
    /\ is_valid(b) <=> (/\ b.hash = calculate_hash(b.header)
                        /\ LeadingZeros(b.hash) >= b.header.difficulty)
    /\ is_valid(b) => \A changed \in HeaderChanges(b) : ~is_valid(changed)

\* The same of the blocks of the chains a peer sends.
PeerBlocksDetectHeaderChange ==
    \A c \in PeerChains : \A i \in 1..Len(c) : DetectsHeaderChange(c[i])

\* C32: is_valid() is true exactly when the stored hash equals the hash of the
\* current header and begins with header.difficulty '0' characters; a block that
\* is valid stops being valid when its nonce, or another field of its header,
\* is changed and the hash is kept. Stated of every block of the node's chain and
\* of the chains peers hand to replace_chain.
C32_IsValidDetectsHeaderChange ==
    /\ PeerBlocksDetectHeaderChange
    /\ \A i \in 1..Len(chain) : DetectsHeaderChange(chain[i])

\* The node holds a block it mined past nonce 0, and has refused a chain.
C32_Witness ==
    /\ ret.op = "replace_chain"
    /\ ret.result = "InvalidChain"
    /\ Len(chain) >= 2
    /\ chain[2].header.nonce > 0
    /\ is_valid(chain[2])
    /\ ~is_valid(TamperNonce(chain[2]))

\* The event loop takes an event from the channel in this step.
Taken == tasks["loop"] = Idle /\ net_event_rx # <<>> /\ net_event_rx' = Tail(net_event_rx)

\* C33: the peer counter starts at 0, goes up by 1 on each PeerConnected event
\* and down by 1 on each PeerDisconnected event but not below 0, and no other
\* event and no other step changes it.
C33_PeerCounter ==
    /\ peer_count = 0
    /\ [][/\ peer_count' >= 0
          /\ peer_count' =
                IF Taken /\ Head(net_event_rx).type = "PeerConnected" THEN peer_count + 1
                ELSE IF Taken /\ Head(net_event_rx).type = "PeerDisconnected"
                THEN (IF peer_count = 0 THEN 0 ELSE peer_count - 1)
                ELSE peer_count]_vars

\* A PeerDisconnected event handled with the counter at 0.
C33_Witness ==
    /\ ret.op = "PeerDisconnected"
    /\ ret.value = 0
    /\ peer_count = 0

\* The channel task t sends on, and the channel it receives from.
Outbox(t) ==
    IF t = "api" THEN api_cmd_rx
    ELSE IF t = "network" THEN net_event_rx
    ELSE net_cmd_rx

Inbox(t) ==
    IF t = "forward" THEN api_cmd_rx
    ELSE IF t = "network" THEN net_cmd_rx
    ELSE IF t = "loop" THEN net_event_rx
    ELSE <<>>

\* Task t waits for room in a full channel or for the lock another task holds.
Blocked(t) ==
    \/ tasks[t].pc = "send" /\ Len(Outbox(t)) >= ChannelCapacity
    \/ tasks[t].pc = "lock" /\ mutex # "free"

\* Task t can take a step of its own.
CanRun(t) ==
    \/ tasks[t] # Idle /\ ~Blocked(t)
    \/ tasks[t] = Idle /\ Inbox(t) # <<>>

\* C34: the tasks never reach a circular wait: in every reachable state in which
\* a task is blocked sending on a full channel or waiting for the blockchain
\* lock, some task can still run.
C34_NoCircularWait ==
    (\E t \in ChannelTasks : Blocked(t)) => (\E t \in ChannelTasks : CanRun(t))

\* C34 for the case the claim names: the event loop is never blocked sending on
\* the command channel while the network task is blocked sending on the event
\* channel.
C34_LoopAndNetworkNotBothBlocked ==
    ~(/\ tasks["loop"].pc = "send" /\ Blocked("loop")
      /\ tasks["network"].pc = "send" /\ Blocked("network"))

\* tx carries a signature that verifies and was made with the key of the wallet
\* whose address is tx.sender.
SignedByOwner(tx) ==
    /\ tx.signature # None
    /\ tx.public_key # None
    /\ verify(tx) = "Ok"
    /\ derive_address(tx.public_key[1].key) = tx.sender

\* Replaying txs on the accounts m debits a wallet address for a transfer that
\* is not signed by its owner.
RECURSIVE DebitsWithoutOwnKey(_, _)
DebitsWithoutOwnKey(m, txs) ==
    IF txs = <<>> THEN FALSE
    ELSE LET tx == Head(txs)
         IN \/ /\ tx.tx_type = "Transfer"
               /\ tx.sender \in {derive_address(k) : k \in SigningKeys}
               /\ tx.amount > 0
               /\ Bal(m, tx.sender) >= tx.amount
               /\ ~SignedByOwner(tx)
            \/ DebitsWithoutOwnKey(Replayed(m, tx), Tail(txs))

\* C35: the balance of a wallet address is decreased only by a Transfer that
\* carries a valid signature made with the key of that wallet: the accounts of
\* the node, which are the replay of its chain, hold no debit made for a
\* transfer signed with another key or not signed.
C35_OnlyOwnKeyDebits ==
    /\ state.accounts = ReplayOf(chain)
    /\ ~DebitsWithoutOwnKey(EmptyMap, AllTransactions(chain))

\* C35 for add_transaction and mine_pending alone: the chains the node has built
\* itself.
C35_OnlyOwnKeyDebitsWhenMining ==
    (\A i \in 2..Len(chain) : chain[i].transactions[Len(chain[i].transactions)].id >= 100)
        => ~DebitsWithoutOwnKey(EmptyMap, AllTransactions(chain))

\* C36: replace_chain never changes the mempool: after a replacement that
\* succeeded pending_transactions holds the same transactions in the same order
\* as before the call, also those that appear in the adopted chain.
C36_ReplaceKeepsMempool ==
    [][ret'.op = "replace_chain" => pending_transactions' = pending_transactions]_vars

\* A chain was adopted while the mempool held a transaction that the adopted
\* chain holds too.
C36_Witness ==
    /\ ret.op = "replace_chain"
    /\ ret.result = "Ok"
    /\ pending_transactions # <<>>
    /\ \E i \in 1..Len(pending_transactions), j \in 1..Len(AllTransactions(chain)) :
          pending_transactions[i] = AllTransactions(chain)[j]

\* C37: the chain length of a node never decreases: it grows by 1 on each
\* mine_pending and strictly on each replace_chain that succeeds, and the chain
\* is left as it is by add_transaction, by a refused replace_chain and by the
\* deploy and the call of a contract.
C37_ChainLengthNeverDecreases ==
    [][/\ Len(chain') >= Len(chain)
       /\ ret'.op = "mine_pending" => Len(chain') = Len(chain) + 1
       /\ (ret'.op = "replace_chain" /\ ret'.result = "Ok") => Len(chain') > Len(chain)
       /\ (\/ ret'.op \in {"add_transaction", "deploy", "call"}
           \/ ret'.op = "replace_chain" /\ ret'.result # "Ok") => chain' = chain]_vars

\* A refused replace_chain, with a shorter chain on offer, on a chain the node
\* has grown to its full length.
C37_Witness ==
    /\ ret.op = "replace_chain"
    /\ ret.result = "InvalidChain"
    /\ Len(chain) = MaxChainLen
    /\ chain[Len(chain)].header.index = MaxChainLen - 1

\* C38: a debit or a transfer that returns false leaves the accounts map as it
\* was: no balance and no nonce changes and no account is created.
C38_RefusedDebitChangesNothing ==
    [][(ret'.op \in {"debit", "transfer"} /\ ret'.result = FALSE)
          => state'.accounts = state.accounts]_vars

\* C38 without the accounts created: after a debit or a transfer that returned
\* false every address has the balance and the nonce it had, an absent address
\* counting as 0 and 0, and a refused transfer leaves the map itself as it was.
C38_RefusedDebitKeepsBalances ==
    [][(ret'.op \in {"debit", "transfer"} /\ ret'.result = FALSE)
          => /\ \A a \in Addresses :
                   /\ Bal(state'.accounts, a) = Bal(state.accounts, a)
                   /\ Non(state'.accounts, a) = Non(state.accounts, a)
             /\ ret'.op = "transfer" => state'.accounts = state.accounts]_vars

\* C39: a call on contract A changes nothing except the saved storage of A: the
\* bytecode and the owner of A, every other contract, every account, the chain
\* and the mempool stay as they were; a deploy adds one contract with empty
\* storage and the sender as owner, and changes no other contract, no account,
\* and neither the chain nor the mempool.
C39_CallAndDeployFrame ==
    [][/\ ret'.op \in {"call", "deploy"} =>
             /\ state'.accounts = state.accounts
             /\ chain' = chain
             /\ pending_transactions' = pending_transactions
             /\ \A a \in (DOMAIN state.contracts) \ {ret'.address} :
                   a \in DOMAIN state'.contracts /\ state'.contracts[a] = state.contracts[a]
       /\ ret'.op = "call" =>
             /\ DOMAIN state'.contracts = DOMAIN state.contracts
             /\ ret'.address \in DOMAIN state.contracts =>
                   /\ state'.contracts[ret'.address].bytecode
                         = state.contracts[ret'.address].bytecode
                   /\ state'.contracts[ret'.address].owner
                         = state.contracts[ret'.address].owner
       /\ ret'.op = "deploy" =>
             /\ ret'.address \notin DOMAIN state.contracts
             /\ DOMAIN state'.contracts = (DOMAIN state.contracts) \cup {ret'.address}
             /\ state'.contracts[ret'.address].storage = EmptyMap
             /\ state'.contracts[ret'.address].owner = "alice"
             /\ state'.contracts[ret'.address].bytecode \in ContractBytecodes]_vars

\* A call has succeeded on one of two contracts whose saved storages differ.
C39_Witness ==
    /\ ret.op = "call"
    /\ ret.result = "Ok"
    /\ DOMAIN state.contracts = CallAddresses
    /\ state.contracts["0xc1"].storage # state.contracts["0xc2"].storage
    /\ state.contracts[ret.address].storage # EmptyMap
    /\ Bal(state.accounts, "alice") = 1

\* C40: in every reachable state every block of the node's chain has
\* header.merkle_root equal to the Merkle root of the block's own transactions.
C40_MerkleRootMatchesTransactions ==
    \A i \in 1..Len(chain) :
        chain[i].header.merkle_root = MerkleRoot(chain[i].transactions)

\* C40 for the blocks the node has mined itself, the last of whose transactions
\* is the reward of mine_pending.
C40_MinedBlocksMatch ==
    \A i \in 1..Len(chain) :
        (chain[i].transactions = <<>>
            \/ chain[i].transactions[Len(chain[i].transactions)].id >= 100)
        => chain[i].header.merkle_root = MerkleRoot(chain[i].transactions)

====
